---------------------------- MODULE Spec2Model ----------------------------
(***************************************************************************)
(* Sandboxed filesystem engine of mcp-servers/rust/filesystem-server.      *)
(*                                                                         *)
(* A path is a sequence of components (the empty sequence is "/"); the     *)
(* component ".." is the parent-directory segment.  The filesystem `fs`    *)
(* maps the physical location of every existing entry to its node: a       *)
(* directory, a regular file with its content (a sequence of characters),  *)
(* or a symbolic link with its absolute target.                            *)
(***************************************************************************)
EXTENDS Naturals, Sequences, FiniteSets, TLC

VARIABLES
  fs,      \* the live filesystem: physical path -> node
  roots,   \* Sandbox.roots: canonical root paths, fixed by Sandbox::new
  pc,      \* position of the call in flight: "idle", a step label, "done", "crashed"
  call,    \* the tool call in flight and its arguments
  loc,     \* the call's local variables (canon_parent, temp_name, original, ...)
  result,  \* the value the call returned (meaningful when pc = "done")
  pre,     \* the filesystem when the call in flight started
  nops,    \* number of mutating calls and outside modifications so far
  made     \* the paths create_directory has created so far

vars == <<fs, roots, pc, call, loc, result, pre, nops, made>>

----------------------------------------------------------------------------
(* Bounds of the model *)

\* mutating calls and outside modifications along one behaviour
MaxOps == 2

\* symbolic links followed in one path resolution before ELOOP
MaxSymlinks == 3

----------------------------------------------------------------------------
(* Results: Ok(v) / Err(kind) of anyhow::Result; every value a call returns *)
(* is a record                                                             *)

Ok(v) == [ok |-> TRUE, val |-> v]

Err(kind) == [ok |-> FALSE, err |-> kind]

----------------------------------------------------------------------------
(* Nodes and paths *)

Dir == [kind |-> "dir"]

File(data) == [kind |-> "file", data |-> data]

Link(target) == [kind |-> "link", to |-> target]

\* Path::parent: the path without its final component; None for "/"
Parent(p) == IF p = <<>> THEN Err("NoParent") ELSE Ok(SubSeq(p, 1, Len(p) - 1))

\* Path::file_name: the final component if it is a normal one; None for "/" and
\* for a path ending in ".."
FileName(p) ==
  IF p = <<>> \/ p[Len(p)] = ".." THEN Err("NoFileName") ELSE Ok(p[Len(p)])

\* Path::ancestors: the path itself, its parent, ..., "/"
Ancestors(p) == [i \in 1..(Len(p) + 1) |-> SubSeq(p, 1, Len(p) + 1 - i)]

\* Path::starts_with: component-wise prefix
StartsWith(p, base) ==
  Len(base) <= Len(p) /\ SubSeq(p, 1, Len(base)) = base

\* the directory physically containing location q ("/" contains itself)
Up(q) == IF q = <<>> THEN <<>> ELSE SubSeq(q, 1, Len(q) - 1)

Exists(f, q) == q \in DOMAIN f

IsDirAt(f, q) == q \in DOMAIN f /\ f[q].kind = "dir"

----------------------------------------------------------------------------
(* Path resolution of the operating system *)

\* Walk `rest` from the existing non-link location `cur`, following links.
RECURSIVE Walk(_, _, _, _)
Walk(f, cur, rest, fuel) ==
  IF rest = <<>> THEN Ok(cur)
  ELSE IF ~IsDirAt(f, cur) THEN Err("NotADirectory")
  ELSE IF Head(rest) = ".." THEN Walk(f, Up(cur), Tail(rest), fuel)
  ELSE LET nxt == Append(cur, Head(rest)) IN
       IF ~Exists(f, nxt) THEN Err("NotFound")
       ELSE IF f[nxt].kind = "link"
         THEN IF fuel = 0 THEN Err("TooManyLinks")
              ELSE Walk(f, <<>>, f[nxt].to \o Tail(rest), fuel - 1)
       ELSE Walk(f, nxt, Tail(rest), fuel)

\* fs::canonicalize (realpath): every component must exist; symlinks and ".."
\* are resolved; the result is a physical location
Canonicalize(f, p) == Walk(f, <<>>, p, MaxSymlinks)

\* Where the final component of p lives, not following a link in final
\* position (lstat, rename, mkdir, unlink): the parent must resolve to a
\* directory; the location itself need not exist.
Locate(f, p) ==
  IF p = <<>> THEN Ok(<<>>)
  ELSE LET par == Canonicalize(f, SubSeq(p, 1, Len(p) - 1)) IN
       IF ~par.ok THEN par
       ELSE IF ~IsDirAt(f, par.val) THEN Err("NotADirectory")
       ELSE IF p[Len(p)] = ".." THEN Ok(Up(par.val))
       ELSE Ok(Append(par.val, p[Len(p)]))

\* Path::exists / Path::is_dir (stat, following links)
PathExists(f, p) == Canonicalize(f, p).ok

PathIsDir(f, p) ==
  LET c == Canonicalize(f, p) IN c.ok /\ f[c.val].kind = "dir"

\* fs::read_to_string
ReadToString(f, p) ==
  LET c == Canonicalize(f, p) IN
  IF ~c.ok THEN c
  ELSE IF f[c.val].kind # "file" THEN Err("IsADirectory")
  ELSE Ok(f[c.val].data)

Put(f, q, node) == [x \in DOMAIN f \cup {q} |-> IF x = q THEN node ELSE f[x]]

Drop(f, qs) == [x \in DOMAIN f \ qs |-> f[x]]

Under(f, q) == {x \in DOMAIN f : StartsWith(x, q)}

\* mkdir(2): the parent must exist; the name must be new
Mkdir(f, p) ==
  LET l == Locate(f, p) IN
  IF ~l.ok THEN l
  ELSE IF p = <<>> \/ p[Len(p)] = ".." \/ Exists(f, l.val) THEN Err("AlreadyExists")
  ELSE Ok(Put(f, l.val, Dir))

\* unlink(2)
RemoveFile(f, p) ==
  LET l == Locate(f, p) IN
  IF ~l.ok THEN l
  ELSE IF ~Exists(f, l.val) THEN Err("NotFound")
  ELSE IF f[l.val].kind = "dir" THEN Err("IsADirectory")
  ELSE Ok(Drop(f, {l.val}))

\* open(O_CREAT | O_EXCL) or open(O_CREAT | O_TRUNC) of a fresh name: an
\* empty regular file
CreateEmpty(f, p) ==
  LET l == Locate(f, p) IN
  IF ~l.ok THEN l
  ELSE IF p = <<>> \/ p[Len(p)] = ".." THEN Err("IsADirectory")
  ELSE IF Exists(f, l.val) /\ f[l.val].kind # "file" THEN Err("IsADirectory")
  ELSE Ok(Put(f, l.val, File(<<>>)))

\* write(2) of one more character at the end of an open file
AppendChar(f, p, ch) ==
  LET l == Locate(f, p) IN
  IF ~l.ok THEN l
  ELSE IF ~Exists(f, l.val) \/ f[l.val].kind # "file" THEN Err("NotFound")
  ELSE Ok(Put(f, l.val, File(Append(f[l.val].data, ch))))

\* rename(2): atomically installs `from` at `to`, replacing a file, a link or
\* an empty directory of the same kind
Rename(f, from, to) ==
  LET lf == Locate(f, from)
      lt == Locate(f, to)
  IN
  IF ~lf.ok THEN lf
  ELSE IF ~lt.ok THEN lt
  ELSE IF ~Exists(f, lf.val) THEN Err("NotFound")
  ELSE IF from = <<>> \/ to = <<>> \/ from[Len(from)] = ".." \/ to[Len(to)] = ".."
    THEN Err("Busy")
  ELSE IF lf.val = lt.val THEN Ok(f)
  ELSE IF f[lf.val].kind = "dir"
    THEN IF StartsWith(lt.val, lf.val) THEN Err("InvalidInput")
         ELSE IF Exists(f, lt.val) /\ f[lt.val].kind # "dir" THEN Err("NotADirectory")
         ELSE IF Exists(f, lt.val) /\ Under(f, lt.val) # {lt.val}
           THEN Err("DirectoryNotEmpty")
         ELSE LET moved == Under(f, lf.val)
                  rest == Drop(f, moved \cup {lt.val})
                  at(x) == lt.val \o SubSeq(x, Len(lf.val) + 1, Len(x))
              IN Ok([y \in DOMAIN rest \cup {at(x) : x \in moved} |->
                      IF y \in DOMAIN rest THEN rest[y]
                      ELSE f[CHOOSE x \in moved : at(x) = y]])
  ELSE IF Exists(f, lt.val) /\ f[lt.val].kind = "dir" THEN Err("IsADirectory")
  ELSE Ok(Put(Drop(f, {lf.val}), lt.val, f[lf.val]))


----------------------------------------------------------------------------
(* Sandbox (sandbox.rs) *)

RECURSIVE SandboxNewSkipInvalid(_, _, _)
SandboxNewSkipInvalid(f, args, canon_roots) ==
  IF args = <<>> THEN Ok(canon_roots)
  ELSE LET canon == Canonicalize(f, Head(args)) IN
       IF ~canon.ok \/ f[canon.val].kind # "dir"
       THEN SandboxNewSkipInvalid(f, Tail(args), canon_roots)
       ELSE SandboxNewSkipInvalid(f, Tail(args), Append(canon_roots, canon.val))

RECURSIVE SandboxNewFrom(_, _, _)
SandboxNewFrom(f, args, canon_roots) ==
  IF args = <<>> THEN Ok(canon_roots)
  ELSE LET canon == Canonicalize(f, Head(args)) IN
       IF ~canon.ok THEN Err("ConfigurationError")
       ELSE IF f[canon.val].kind # "dir" THEN Err("ConfigurationError")
       ELSE SandboxNewFrom(f, Tail(args), Append(canon_roots, canon.val))

\* Sandbox::new: every root canonicalized and verified to be a directory
SandboxNew(f, args) == SandboxNewFrom(f, args, <<>>)

\* self.roots.iter().any(|root| canon.starts_with(root))
InsideRoots(rs, canon) == \E i \in 1..Len(rs) : StartsWith(canon, rs[i])

\* Sandbox::resolve_path: canonicalize, then test containment
ResolvePathUnchecked(f, rs, p) == Canonicalize(f, p)

ResolvePathLexical(f, rs, p) ==
  IF ~Canonicalize(f, p).ok THEN Err("NotFound")
  ELSE IF InsideRoots(rs, p) THEN Ok(p)
  ELSE Err("OutsideSandbox")

ResolvePath(f, rs, p) ==
  LET canon == Canonicalize(f, p) IN
  IF ~canon.ok THEN Err("NotFound")
  ELSE IF InsideRoots(rs, canon.val) THEN Ok(canon.val)
  ELSE Err("OutsideSandbox")

CheckNewFoldersAnyAncestor(f, rs, p) ==
  \E i \in 1..(Len(p) + 1) :
    /\ Canonicalize(f, Ancestors(p)[i]).ok
    /\ InsideRoots(rs, Canonicalize(f, Ancestors(p)[i]).val)

\* Sandbox::check_new_folders: the first ancestor (the path itself first) that
\* can be canonicalized decides
CheckNewFolders(f, rs, p) ==
  LET anc == Ancestors(p)
      hits == {i \in 1..Len(anc) : Canonicalize(f, anc[i]).ok}
  IN
  IF hits = {} THEN FALSE
  ELSE LET first == CHOOSE i \in hits : \A j \in hits : i <= j
       IN InsideRoots(rs, Canonicalize(f, anc[first]).val)

----------------------------------------------------------------------------
(* Text editing (tools/edit.rs) *)

\* str::contains
Contains(s, t) ==
  /\ Len(t) <= Len(s)
  /\ \E i \in 0..(Len(s) - Len(t)) : SubSeq(s, i + 1, i + Len(t)) = t

\* str::replace: every non-overlapping occurrence, left to right; an empty
\* pattern matches at every character boundary
RECURSIVE Replace(_, _, _)
Replace(s, old, new) ==
  IF old = <<>>
    THEN IF s = <<>> THEN new
         ELSE new \o <<Head(s)>> \o Replace(Tail(s), old, new)
  ELSE IF s = <<>> THEN <<>>
  ELSE IF StartsWith(s, old)
    THEN new \o Replace(SubSeq(s, Len(old) + 1, Len(s)), old, new)
  ELSE <<Head(s)>> \o Replace(Tail(s), old, new)

\* apply_edits: the edits in list order, each on the content so far; an edit
\* whose old fragment is absent is skipped
RECURSIVE ApplyEditsStopAtMissing(_, _)
ApplyEditsStopAtMissing(content, edits) ==
  IF edits = <<>> THEN content
  ELSE LET edit == Head(edits) IN
       IF ~Contains(content, edit.old) THEN content
       ELSE ApplyEditsStopAtMissing(Replace(content, edit.old, edit.new), Tail(edits))

RECURSIVE ApplyEditsAgainst(_, _, _)
ApplyEditsAgainst(original, content, edits) ==
  IF edits = <<>> THEN content
  ELSE LET edit == Head(edits) IN
       IF ~Contains(original, edit.old)
         THEN ApplyEditsAgainst(original, content, Tail(edits))
       ELSE ApplyEditsAgainst(original, Replace(content, edit.old, edit.new),
                              Tail(edits))

ApplyEditsMatchingOriginal(content, edits) ==
  ApplyEditsAgainst(content, content, edits)

RECURSIVE ApplyEdits(_, _)
ApplyEdits(content, edits) ==
  IF edits = <<>> THEN content
  ELSE LET edit == Head(edits) IN
       IF ~Contains(content, edit.old) THEN ApplyEdits(content, Tail(edits))
       ELSE ApplyEdits(Replace(content, edit.old, edit.new), Tail(edits))

\* TextDiff::from_lines: the text cut after every line feed
RECURSIVE Lines(_)
Lines(s) ==
  IF s = <<>> THEN <<>>
  ELSE LET feeds == {i \in 1..Len(s) : s[i] = "\n"}
           cut == IF feeds = {} THEN Len(s)
                  ELSE CHOOSE i \in feeds : \A j \in feeds : i <= j
       IN <<SubSeq(s, 1, cut)>> \o Lines(SubSeq(s, cut + 1, Len(s)))

\* the length of a longest common subsequence of two lists of lines
RECURSIVE LcsLen(_, _)
LcsLen(a, b) ==
  IF a = <<>> \/ b = <<>> THEN 0
  ELSE IF Head(a) = Head(b) THEN 1 + LcsLen(Tail(a), Tail(b))
  ELSE LET x == LcsLen(Tail(a), b)
           y == LcsLen(a, Tail(b))
       IN IF x >= y THEN x ELSE y

RECURSIVE ChangesWithoutEqual(_, _)
ChangesWithoutEqual(a, b) ==
  IF a = <<>> THEN [i \in 1..Len(b) |-> [tag |-> "Insert", value |-> b[i]]]
  ELSE IF b = <<>> THEN [i \in 1..Len(a) |-> [tag |-> "Delete", value |-> a[i]]]
  ELSE IF Head(a) = Head(b) THEN ChangesWithoutEqual(Tail(a), Tail(b))
  ELSE IF LcsLen(Tail(a), b) >= LcsLen(a, Tail(b))
    THEN <<[tag |-> "Delete", value |-> Head(a)]>> \o ChangesWithoutEqual(Tail(a), b)
  ELSE <<[tag |-> "Insert", value |-> Head(b)]>> \o ChangesWithoutEqual(a, Tail(b))

\* diff.iter_all_changes(): a shortest edit script over the lines, a deletion
\* before the insertion that replaces it
RECURSIVE Changes(_, _)
Changes(a, b) ==
  IF a = <<>> THEN [i \in 1..Len(b) |-> [tag |-> "Insert", value |-> b[i]]]
  ELSE IF b = <<>> THEN [i \in 1..Len(a) |-> [tag |-> "Delete", value |-> a[i]]]
  ELSE IF Head(a) = Head(b)
    THEN <<[tag |-> "Equal", value |-> Head(a)]>> \o Changes(Tail(a), Tail(b))
  ELSE IF LcsLen(Tail(a), b) >= LcsLen(a, Tail(b))
    THEN <<[tag |-> "Delete", value |-> Head(a)]>> \o Changes(Tail(a), b)
  ELSE <<[tag |-> "Insert", value |-> Head(b)]>> \o Changes(a, Tail(b))

SignSwapped(tag) ==
  CASE tag = "Delete" -> "+" [] tag = "Insert" -> "-" [] OTHER -> " "

\* the sign get_diffs puts before a change
Sign(tag) ==
  CASE tag = "Delete" -> "-" [] tag = "Insert" -> "+" [] OTHER -> " "

\* format!("{}{}", sign, change): the line, with a line feed when it has none
Shown(change) ==
  <<Sign(change.tag)>> \o change.value
    \o (IF change.value[Len(change.value)] = "\n" THEN <<>> ELSE <<"\n">>)

\* get_diffs: one string per change
GetDiffs(old_content, new_content) ==
  LET changes == Changes(Lines(old_content), Lines(new_content))
  IN [i \in 1..Len(changes) |-> Shown(changes[i])]

\* Vec<String>::join("")
RECURSIVE Join(_)
Join(strings) ==
  IF strings = <<>> THEN <<>> ELSE Head(strings) \o Join(Tail(strings))

\* EditResult { diff, applied: !dry_run }
EditResultNotNegated(diff, dry_run) == [diff |-> diff, applied |-> dry_run]

EditResult(diff, dry_run) == [diff |-> diff, applied |-> ~dry_run]

\* the `if !dry_run` guard of the persisting block
PersistsAlways(dry_run) == TRUE

Persists(dry_run) == ~dry_run


----------------------------------------------------------------------------
(* Directory creation (std::fs::create_dir_all, called by create_directory) *)

Outcome(ok, f) == [ok |-> ok, fs |-> f]

\* mkdir of the path; on NotFound the parent chain is created first and the
\* mkdir repeated; an existing directory is accepted
RECURSIVE CreateDirAll(_, _)
CreateDirAll(f, p) ==
  IF p = <<>> THEN Outcome(TRUE, f)
  ELSE LET m == Mkdir(f, p) IN
       IF m.ok THEN Outcome(TRUE, m.val)
       ELSE IF m.err # "NotFound" THEN Outcome(PathIsDir(f, p), f)
       ELSE LET up == CreateDirAll(f, SubSeq(p, 1, Len(p) - 1)) IN
            IF ~up.ok THEN up
            ELSE LET again == Mkdir(up.fs, p) IN
                 IF again.ok THEN Outcome(TRUE, again.val)
                 ELSE Outcome(PathIsDir(up.fs, p), up.fs)

----------------------------------------------------------------------------
(* Read, info, list and search (tools/read.rs, info.rs, search.rs) *)

MAX_FILE_SIZE == 1048576

\* Content is a sequence of one-byte characters in which the element Block
\* stands for a run of MAX_FILE_SIZE - 1 filler bytes, so that files at and
\* just over the ceiling are finite sequences.  A file holds at most one
\* Block, at its start.
Block == "#"

BlockLen == MAX_FILE_SIZE - 1

\* String::len / metadata.len(): the length in bytes
RECURSIVE ByteLen(_)
ByteLen(data) ==
  IF data = <<>> THEN 0
  ELSE (IF Head(data) = Block THEN BlockLen ELSE 1) + ByteLen(Tail(data))

\* file.take(limit): the longest prefix of at most `limit` bytes
RECURSIVE Take(_, _)
Take(data, limit) ==
  IF data = <<>> THEN <<>>
  ELSE LET n == IF Head(data) = Block THEN BlockLen ELSE 1 IN
       IF n > limit THEN <<>>
       ELSE <<Head(data)>> \o Take(Tail(data), limit - n)

\* metadata.len() > MAX_FILE_SIZE, contents.len() > MAX_FILE_SIZE
OverLimitInclusive(len) == len >= MAX_FILE_SIZE

OverLimit(len) == len > MAX_FILE_SIZE

\* read_file up to the size check: resolve, open, metadata, regular file,
\* size ceiling; the value is the canonical path of the open file
ReadOpenUnchecked(f, rs, p) ==
  LET canon_path == Canonicalize(f, p) IN
  IF ~canon_path.ok THEN canon_path
  ELSE IF f[canon_path.val].kind # "file" THEN Err("NotRegularFile")
  ELSE canon_path

ReadOpen(f, rs, p) ==
  LET canon_path == ResolvePath(f, rs, p) IN
  IF ~canon_path.ok THEN canon_path
  ELSE IF ~Exists(f, canon_path.val) THEN Err("IoError")
  ELSE IF f[canon_path.val].kind # "file" THEN Err("NotRegularFile")
  ELSE IF OverLimit(ByteLen(f[canon_path.val].data)) THEN Err("SizeLimitExceeded")
  ELSE canon_path

\* file.take(MAX_FILE_SIZE + 1).read_to_string(&mut contents)
ReadBytes(f, canon_path) == Take(f[canon_path].data, MAX_FILE_SIZE + 1)

\* the check after the read: refused if more than MAX_FILE_SIZE bytes came
CheckContentsUnguarded(contents) == Ok(contents)

CheckContents(contents) ==
  IF OverLimit(ByteLen(contents)) THEN Err("SizeLimitExceeded")
  ELSE Ok(contents)

ReadContents(f, canon_path) == CheckContents(ReadBytes(f, canon_path))

\* read_file with nothing else touching the file meanwhile
ReadFile(f, rs, p) ==
  LET canon_path == ReadOpen(f, rs, p) IN
  IF ~canon_path.ok THEN canon_path ELSE ReadContents(f, canon_path.val)

\* read_multiple_files: every path read, the failures dropped, the contents
\* of the successes in input order; never an error
RECURSIVE ReadMultipleFilesFailFast(_, _, _)
ReadMultipleFilesFailFast(f, rs, paths) ==
  IF paths = <<>> THEN Ok(<<>>)
  ELSE LET one == ReadFile(f, rs, Head(paths))
           rest == ReadMultipleFilesFailFast(f, rs, Tail(paths))
       IN IF ~one.ok THEN one
          ELSE IF ~rest.ok THEN rest
          ELSE Ok(<<one.val>> \o rest.val)

RECURSIVE ReadMultipleFiles(_, _, _)
ReadMultipleFiles(f, rs, paths) ==
  IF paths = <<>> THEN Ok(<<>>)
  ELSE LET one == ReadFile(f, rs, Head(paths))
           rest == ReadMultipleFiles(f, rs, Tail(paths))
       IN IF one.ok THEN Ok(<<one.val>> \o rest.val) ELSE rest

\* metadata.len(): the content length of a regular file
NodeLen(node) == IF node.kind = "file" THEN ByteLen(node.data) ELSE 0

\* get_file_info: the metadata of the resolved path
GetFileInfo(f, rs, p) ==
  LET canon_path == ResolvePath(f, rs, p) IN
  IF ~canon_path.ok THEN canon_path
  ELSE IF ~Exists(f, canon_path.val) THEN Err("IoError")
  ELSE Ok([size |-> NodeLen(f[canon_path.val]), kind |-> f[canon_path.val].kind])

\* the characters of the names of the model, in byte order
CharOrder ==
  <<"-", ".", "/", "F", "X", "d", "e", "f", "g", "h", "i", "k", "l", "m", "n",
    "o", "p", "r", "s", "t", "u", "x">>

CharRank(c) == CHOOSE i \in 1..Len(CharOrder) : CharOrder[i] = c

\* the characters of a file name
Spell(name) ==
  CASE name = ".h" -> <<".", "h">>
    [] name = "d.x" -> <<"d", ".", "x">>
    [] name = ".tmpXXXXXX" ->
         <<".", "t", "m", "p", "X", "X", "X", "X", "X", "X">>
    [] name = "tempfile-uuid" ->
         <<"t", "e", "m", "p", "f", "i", "l", "e", "-", "u", "u", "i", "d">>
    [] OTHER -> <<name>>

\* the order of String: byte by byte, a proper prefix first
RECURSIVE BytesLess(_, _)
BytesLess(a, b) ==
  IF a = <<>> THEN b # <<>>
  ELSE IF b = <<>> THEN FALSE
  ELSE IF Head(a) # Head(b) THEN CharRank(Head(a)) < CharRank(Head(b))
  ELSE BytesLess(Tail(a), Tail(b))

\* Vec::sort of a set of strings
RECURSIVE SortStrings(_)
SortStrings(S) ==
  IF S = {} THEN <<>>
  ELSE LET least == CHOOSE x \in S : \A y \in S \ {x} : BytesLess(x, y)
       IN <<least>> \o SortStrings(S \ {least})

\* The orders in which the operating system may yield the entries of a
\* directory: readdir and the walker promise none, so the model takes the
\* byte order, its reverse and a rotation of it
EnumOrders == {"ascending", "descending", "rotated"}

\* fs::read_dir / the walker's iterator: the entries S as they are yielded
Enumerate(S, order) ==
  LET sorted == SortStrings(S)
      n == Len(sorted)
  IN [i \in 1..n |->
        CASE order = "ascending" -> sorted[i]
          [] order = "descending" -> sorted[n + 1 - i]
          [] OTHER -> sorted[(i % n) + 1]]

Unsorted(entries) == entries

\* Vec<String>::sort on the collected entries
Sort(entries) == SortStrings({entries[i] : i \in 1..Len(entries)})

\* entry.path().to_string_lossy(): the components, each after a separator
RECURSIVE PathString(_)
PathString(q) ==
  IF q = <<>> THEN <<>>
  ELSE PathString(SubSeq(q, 1, Len(q) - 1)) \o <<"/">> \o Spell(q[Len(q)])

\* r.display() of a canonical path
Display(q) == IF q = <<>> THEN <<"/">> ELSE PathString(q)

\* Sandbox::get_roots: the stored roots, displayed
GetRoots(rs) == [i \in 1..Len(rs) |-> Display(rs[i])]

\* fs::read_dir: the entries directly inside a directory
Descendants(f, q) == Under(f, q) \ {q}

Children(f, q) == {x \in DOMAIN f : Len(x) = Len(q) + 1 /\ StartsWith(x, q)}

\* one entry of list_directory: the name, with the trailing separator of a
\* directory
Entry(f, x) ==
  Spell(x[Len(x)]) \o (IF f[x].kind = "dir" THEN <<"/">> ELSE <<>>)

\* list_directory: immediate children that are not symlinks, sorted
ListDirectory(f, rs, p, order) ==
  LET canon_path == ResolvePath(f, rs, p) IN
  IF ~canon_path.ok THEN canon_path
  ELSE IF ~IsDirAt(f, canon_path.val) THEN Err("IoError")
  ELSE LET kept == {x \in Children(f, canon_path.val) : f[x].kind # "link"}
       IN Ok(Sort(Enumerate({Entry(f, x) : x \in kept}, order)))

\* str::to_lowercase
Lower(s) == IF s = "F" THEN "f" ELSE s

\* Glob::new: the patterns of the model are "*", a literal name, and the
\* malformed "["
GlobValid(pattern) == pattern # "["

GlobMatch(pattern, name) == pattern = "*" \/ pattern = name

\* build_patterns: include and exclude globs compiled from the lowercased
\* patterns
BuildPatternsIncludeOnly(pattern, exclude_patterns) ==
  IF ~GlobValid(Lower(pattern)) THEN Err("InvalidPattern")
  ELSE Ok([include |-> Lower(pattern), exclude |-> {}])

BuildPatterns(pattern, exclude_patterns) ==
  IF ~GlobValid(Lower(pattern)) THEN Err("InvalidPattern")
  ELSE IF \E i \in 1..Len(exclude_patterns) : ~GlobValid(Lower(exclude_patterns[i]))
    THEN Err("InvalidPattern")
  ELSE Ok([include |-> Lower(pattern),
           exclude |-> {Lower(exclude_patterns[i]) : i \in 1..Len(exclude_patterns)}])

\* a name that starts with "."
IsHidden(name) == Spell(name)[1] = "."

\* WalkBuilder with follow_links(false), standard_filters(false), hidden(true):
\* the start path and everything physically below it, except entries that are
\* hidden or lie below a hidden directory
WalkedFollowingLinks(f, canon_path) ==
  LET below == Under(f, canon_path)
      targets == {Canonicalize(f, x) : x \in {y \in below : f[y].kind = "link"}}
  IN below \cup UNION {Under(f, t.val) : t \in {u \in targets : u.ok}}

Walked(f, canon_path) ==
  {x \in Under(f, canon_path) :
     \A i \in (Len(canon_path) + 1)..Len(x) : ~IsHidden(x[i])}

\* search_files: the regular files of the walk whose lowercased name matches
\* the include glob and no exclude glob, sorted
SearchFiles(f, rs, p, pattern, exclude_patterns, order) ==
  LET canon_path == ResolvePath(f, rs, p) IN
  IF ~canon_path.ok THEN canon_path
  ELSE LET patterns == BuildPatterns(pattern, exclude_patterns) IN
       IF ~patterns.ok THEN patterns
       ELSE LET files == {x \in Walked(f, canon_path.val) :
                 /\ f[x].kind = "file"
                 /\ x # <<>>
                 /\ GlobMatch(patterns.val.include, Lower(x[Len(x)]))
                 /\ \A e \in patterns.val.exclude :
                      ~GlobMatch(e, Lower(x[Len(x)]))}
            IN Ok(Sort(Enumerate({PathString(x) : x \in files}, order)))


----------------------------------------------------------------------------
(* The filesystem at startup and the arguments callers supply *)

FS0 ==
  [q \in {<<>>, <<"r">>, <<"r", "d">>, <<"r", "d", "F">>, <<"r", "d", ".h">>,
          <<"r", "d.x">>,
          <<"r", "f">>, <<"r", "g">>, <<"r", "k">>, <<"r", "l">>, <<"o">>,
          <<"o", "s">>} |->
     CASE q = <<"r", "f">> -> File(<<"a", "b">>)
       [] q = <<"r", "g">> -> File(<<Block, "a">>)
       [] q = <<"r", "d", "F">> -> File(<<"b">>)
       [] q = <<"r", "d", ".h">> -> File(<<>>)
       [] q = <<"r", "d.x">> -> File(<<>>)
       [] q = <<"o", "s">> -> File(<<"s">>)
       [] q = <<"r", "k">> -> Link(<<"r", "f">>)
       [] q = <<"r", "l">> -> Link(<<"o">>)
       [] OTHER -> Dir]

\* the roots given on the command line
RootArgs == <<(<<"r">>)>>

Paths ==
  { <<>>, <<"r">>, <<"r", "f">>, <<"r", "g">>, <<"r", "d">>,
    <<"r", "n">>, <<"r", "d", "n">>, <<"r", "n", "m">>, <<"r", "f", "n">>,
    <<"r", "k">>, <<"r", "l">>, <<"r", "l", "s">>, <<"r", "l", "n">>,
    <<"r", "..">>, <<"r", "d", "..", "f">>, <<"r", "..", "o", "s">>,
    <<"r", "n", "..", "..", "o", "n">>,
    <<"o">>, <<"o", "s">>, <<"o", "n">> }

Contents == { <<>>, <<"b", "a">> }

EditLists ==
  { <<>>,
    <<[old |-> <<"a">>, new |-> <<"x">>]>>,
    <<[old |-> <<"z">>, new |-> <<"x">>]>>,
    <<[old |-> <<"z">>, new |-> <<"x">>], [old |-> <<"a">>, new |-> <<"b">>],
      [old |-> <<"b">>, new |-> <<"a">>]>> }

\* path and content of a write: the empty content for an existing and for a
\* new file only
WriteArgs ==
  {a \in Paths \X Contents :
     a[2] # <<>> \/ a[1] \in {<<"r", "f">>, <<"r", "n">>}}

\* paths of an edit: files, a directory, a missing path, a symlink to a file,
\* a dot-dot path and paths that lead outside
EditPaths ==
  { <<"r", "f">>, <<"r", "g">>, <<"r", "d">>, <<"r", "n">>, <<"r", "k">>,
    <<"r", "d", "..", "f">>, <<"r", "l", "s">>, <<"o", "s">> }

\* path lists of read_multiple_files
PathLists ==
  { <<>>,
    << <<"o", "s">> >>,
    << <<"r", "f">>, <<"r", "n">>, <<"r", "d", "F">> >>,
    << <<"r", "d", "F">>, <<"r", "l", "s">>, <<"r", "f">>, <<"r", "d">> >> }

\* sources and destinations of a move
MoveSources ==
  { <<"r">>, <<"r", "f">>, <<"r", "d">>, <<"r", "k">>, <<"r", "n">>,
    <<"r", "l", "s">>, <<"o", "s">> }

MoveDestinations ==
  { <<>>, <<"r", "..">>, <<"r", "n">>, <<"r", "f">>, <<"r", "d">>,
    <<"r", "d", "F">>, <<"r", "k">>, <<"r", "n", "m">>, <<"r", "f", "n">>,
    <<"r", "l", "n">>, <<"o", "n">> }

\* start paths of a search, a listing or a metadata query
SearchPaths ==
  { <<"r">>, <<"r", "d">>, <<"r", "f">>, <<"r", "n">>, <<"r", "l">>,
    <<"r", "..">>, <<"o">> }

\* include pattern and exclude patterns of a search
SearchArgs ==
  { <<"*", <<>>>>, <<"F", <<>>>>, <<"*", <<"f">>>>, <<"[", <<>>>> }

\* temp-file names: "tempfile-<uuid>" (write_file), NamedTempFile (edit_file)
WriteTempName == "tempfile-uuid"

EditTempName == ".tmpXXXXXX"

----------------------------------------------------------------------------
(* State machine *)

NoCall == [op |-> "none"]

NoLoc == [fault |-> "none"]

NoResult == Err("none")

Init ==
  /\ fs = FS0
  /\ roots = SandboxNew(FS0, RootArgs).val
  /\ pc = "idle"
  /\ call = NoCall
  /\ loc = NoLoc
  /\ result = NoResult
  /\ pre = FS0
  /\ nops = 0
  /\ made = {}

\* a call that returns in one step without touching the filesystem
Answer(c, r) ==
  /\ pc = "idle"
  /\ call' = c
  /\ result' = r
  /\ pc' = "done"
  /\ loc' = NoLoc
  /\ pre' = fs
  /\ UNCHANGED <<fs, roots, made, nops>>

\* the value of a Result with its payload under a field name
Named(r, field) == IF r.ok THEN Ok([f \in {field} |-> r.val]) ELSE r

Call_ResolvePath(path) ==
  Answer([op |-> "resolve_path", path |-> path],
         Named(ResolvePath(fs, roots, path), "path"))

(* read_file *)

\* resolve_path, File::open, metadata, is_file, the size check
ReadFile_Open(path) ==
  /\ pc = "idle"
  /\ call' = [op |-> "read_file", path |-> path]
  /\ pre' = fs
  /\ UNCHANGED <<fs, roots, made, nops>>
  /\ LET canon_path == ReadOpen(fs, roots, path) IN
     IF ~canon_path.ok
       THEN pc' = "done" /\ result' = canon_path /\ loc' = NoLoc
       ELSE /\ pc' = "rf_read"
            /\ result' = NoResult
            /\ loc' = [canon_path |-> canon_path.val,
                       checked |-> ByteLen(fs[canon_path.val].data),
                       read |-> 0,
                       fault |-> "none"]

\* another process appends to the file that is open for reading
Grow ==
  /\ pc = "rf_read"
  /\ nops < MaxOps
  /\ nops' = nops + 1
  /\ \E more \in {<<"b">>, <<"b", "b">>} :
       fs' = Put(fs, loc.canon_path, File(fs[loc.canon_path].data \o more))
  /\ UNCHANGED <<roots, made, pc, call, loc, result, pre>>

\* file.take(MAX_FILE_SIZE + 1).read_to_string(&mut contents), the second
\* size check
ReadFile_Read ==
  /\ pc = "rf_read"
  /\ pc' = "done"
  /\ LET contents == ReadBytes(fs, loc.canon_path) IN
     /\ result' = Named(CheckContents(contents), "content")
     /\ loc' = [loc EXCEPT !.read = ByteLen(contents)]
  /\ UNCHANGED <<fs, roots, made, call, pre, nops>>

Call_ReadMultipleFiles(paths) ==
  Answer([op |-> "read_multiple_files", paths |-> paths],
         Named(ReadMultipleFiles(fs, roots, paths), "contents"))

Call_GetFileInfo(path) ==
  Answer([op |-> "get_file_info", path |-> path], GetFileInfo(fs, roots, path))

Call_ListDirectory(path) ==
  \E order \in EnumOrders :
    Answer([op |-> "list_directory", path |-> path],
           Named(ListDirectory(fs, roots, path, order), "entries"))

Call_SearchFiles(path, pattern, exclude_patterns) ==
  \E order \in EnumOrders :
    Answer([op |-> "search_files", path |-> path, pattern |-> pattern,
            exclude_patterns |-> exclude_patterns],
           Named(SearchFiles(fs, roots, path, pattern, exclude_patterns, order),
                 "files"))

\* let _ = fs::remove_file(..): the outcome is ignored
TryRemove(f, p) == LET r == RemoveFile(f, p) IN IF r.ok THEN r.val ELSE f

FailStepLeavesTemp(temp, fault) ==
  /\ fs' = fs
  /\ pc' = "done"
  /\ result' = Err("IoError")
  /\ loc' = [loc EXCEPT !.fault = fault]

\* an error return of a step of write_file or edit_file; the temp file is
\* removed; fault names the step when the error is an I/O fault of the
\* environment rather than the outcome of the step on this filesystem
FailStep(temp, fault) ==
  /\ fs' = TryRemove(fs, temp)
  /\ pc' = "done"
  /\ result' = Err("IoError")
  /\ loc' = [loc EXCEPT !.fault = fault]

(* write_file *)

\* temp_name and canon_filepath, both directly inside the resolved parent
WriteFile_PathsInPlace(canon_parent, filename) ==
  [canon_parent |-> canon_parent,
   temp_name |-> Append(canon_parent, filename),
   canon_filepath |-> Append(canon_parent, filename),
   written |-> 0,
   fault |-> "none"]

WriteFile_Paths(canon_parent, filename) ==
  [canon_parent |-> canon_parent,
   temp_name |-> Append(canon_parent, WriteTempName),
   canon_filepath |-> Append(canon_parent, filename),
   written |-> 0,
   fault |-> "none"]

WriteFile_Begin(path, content) ==
  /\ pc = "idle"
  /\ nops < MaxOps
  /\ call' = [op |-> "write_file", path |-> path, content |-> content]
  /\ pre' = fs
  /\ nops' = nops + 1
  /\ UNCHANGED <<fs, roots, made>>
  /\ LET filename == FileName(path)
         parent == Parent(path)
         canon_parent ==
           IF parent.ok THEN ResolvePath(fs, roots, parent.val) ELSE parent
     IN IF ~filename.ok \/ ~canon_parent.ok
          THEN /\ pc' = "done"
               /\ result' = IF ~filename.ok THEN filename ELSE canon_parent
               /\ loc' = NoLoc
          ELSE /\ pc' = "wf_create"
               /\ result' = NoResult
               /\ loc' = WriteFile_Paths(canon_parent.val, filename.val)

\* fs::write(&temp_name, ..): create or truncate
WriteFile_TempCreate ==
  /\ pc = "wf_create"
  /\ UNCHANGED <<roots, made, call, pre, nops>>
  /\ \E fail \in BOOLEAN :
       LET r == CreateEmpty(fs, loc.temp_name) IN
       IF fail \/ ~r.ok
         THEN FailStep(loc.temp_name, IF fail THEN "temp_write" ELSE "none")
       ELSE /\ fs' = r.val
            /\ pc' = IF call.content = <<>> THEN "wf_rename" ELSE "wf_write"
            /\ UNCHANGED <<loc, result>>

\* fs::write(&temp_name, ..): the content, one character at a time
WriteFile_TempWrite ==
  /\ pc = "wf_write"
  /\ UNCHANGED <<roots, made, call, pre, nops>>
  /\ \E fail \in BOOLEAN :
       LET r == AppendChar(fs, loc.temp_name, call.content[loc.written + 1]) IN
       IF fail \/ ~r.ok
         THEN FailStep(loc.temp_name, IF fail THEN "temp_write" ELSE "none")
       ELSE /\ fs' = r.val
            /\ loc' = [loc EXCEPT !.written = @ + 1]
            /\ pc' = IF loc.written + 1 = Len(call.content)
                       THEN "wf_rename" ELSE "wf_write"
            /\ UNCHANGED result

\* fs::rename(&temp_name, &canon_filepath)
WriteFile_RenameUnchecked ==
  /\ pc = "wf_rename"
  /\ UNCHANGED <<roots, made, call, pre, nops, loc>>
  /\ \E fail \in BOOLEAN :
       LET r == Rename(fs, loc.temp_name, loc.canon_filepath) IN
       /\ fs' = IF fail \/ ~r.ok THEN TryRemove(fs, loc.temp_name) ELSE r.val
       /\ pc' = "done"
       /\ result' = Ok([unit |-> TRUE])

WriteFile_Rename ==
  /\ pc = "wf_rename"
  /\ UNCHANGED <<roots, made, call, pre, nops>>
  /\ \E fail \in BOOLEAN :
       LET r == Rename(fs, loc.temp_name, loc.canon_filepath) IN
       IF fail \/ ~r.ok
         THEN FailStep(loc.temp_name, IF fail THEN "rename" ELSE "none")
       ELSE /\ fs' = r.val
            /\ pc' = "done"
            /\ result' = Ok([unit |-> TRUE])
            /\ UNCHANGED loc


(* edit_file *)

\* the temp file NamedTempFile::new_in(dir) creates beside canon_path
EditFile_PathsInPlace(canon_path, new_content, diff) ==
  [canon_path |-> canon_path,
   diff |-> diff,
   tmp |-> canon_path,
   new_content |-> new_content,
   written |-> 0,
   fault |-> "none"]

EditFile_Paths(canon_path, new_content, diff) ==
  [canon_path |-> canon_path,
   diff |-> diff,
   tmp |-> Append(Up(canon_path), EditTempName),
   new_content |-> new_content,
   written |-> 0,
   fault |-> "none"]

EditFile_Begin(path, edits, dry_run) ==
  /\ pc = "idle"
  /\ dry_run \/ nops < MaxOps
  /\ call' = [op |-> "edit_file", path |-> path, edits |-> edits,
              dry_run |-> dry_run]
  /\ pre' = fs
  /\ nops' = IF dry_run THEN nops ELSE nops + 1
  /\ UNCHANGED <<fs, roots, made>>
  /\ LET canon_path == ResolvePath(fs, roots, path)
         original ==
           IF canon_path.ok THEN ReadToString(fs, canon_path.val) ELSE canon_path
     IN IF ~canon_path.ok \/ ~original.ok
          THEN /\ pc' = "done"
               /\ result' = IF ~canon_path.ok THEN canon_path ELSE Err("IoError")
               /\ loc' = NoLoc
          ELSE IF ~Persists(dry_run)
          THEN /\ pc' = "done"
               /\ result' =
                    Ok(EditResult(
                         Join(GetDiffs(original.val,
                                       ApplyEdits(original.val, edits))),
                         dry_run))
               /\ loc' = NoLoc
          ELSE /\ pc' = "ef_create"
               /\ result' = NoResult
               /\ loc' =
                    LET new_content == ApplyEdits(original.val, edits) IN
                    EditFile_Paths(canon_path.val, new_content,
                                   Join(GetDiffs(original.val, new_content)))

\* NamedTempFile::new_in(dir)
EditFile_TempCreate ==
  /\ pc = "ef_create"
  /\ UNCHANGED <<roots, made, call, pre, nops>>
  /\ \E fail \in BOOLEAN :
       LET r == CreateEmpty(fs, loc.tmp) IN
       IF fail \/ ~r.ok
         THEN FailStep(loc.tmp, IF fail THEN "temp_create" ELSE "none")
       ELSE /\ fs' = r.val
            /\ pc' = IF loc.new_content = <<>> THEN "ef_persist" ELSE "ef_write"
            /\ UNCHANGED <<loc, result>>

\* write_all(&mut tmp, new_content) and flush, one character at a time
EditFile_TempWrite ==
  /\ pc = "ef_write"
  /\ UNCHANGED <<roots, made, call, pre, nops>>
  /\ \E fail \in BOOLEAN :
       LET r == AppendChar(fs, loc.tmp, loc.new_content[loc.written + 1]) IN
       IF fail \/ ~r.ok
         THEN FailStep(loc.tmp, IF fail THEN "temp_write" ELSE "none")
       ELSE /\ fs' = r.val
            /\ loc' = [loc EXCEPT !.written = @ + 1]
            /\ pc' = IF loc.written + 1 = Len(loc.new_content)
                       THEN "ef_persist" ELSE "ef_write"
            /\ UNCHANGED result

EditFile_PersistByCopy ==
  /\ pc = "ef_persist"
  /\ UNCHANGED <<roots, made, call, pre, nops>>
  /\ \E fail \in BOOLEAN :
       LET r == Rename(fs, loc.tmp, loc.canon_path) IN
       IF fail \/ ~r.ok
         THEN /\ fs' = Put(TryRemove(fs, loc.tmp), loc.canon_path, File(<<>>))
              /\ pc' = "done"
              /\ result' = Err("IoError")
              /\ loc' = [loc EXCEPT !.fault = IF fail THEN "persist" ELSE "none"]
       ELSE /\ fs' = r.val
            /\ pc' = "done"
            /\ result' = Ok(EditResult(loc.diff, call.dry_run))
            /\ UNCHANGED loc

\* tmp.persist(&canon_path): rename of the temp file onto the target
EditFile_Persist ==
  /\ pc = "ef_persist"
  /\ UNCHANGED <<roots, made, call, pre, nops>>
  /\ \E fail \in BOOLEAN :
       LET r == Rename(fs, loc.tmp, loc.canon_path) IN
       IF fail \/ ~r.ok
         THEN FailStep(loc.tmp, IF fail THEN "persist" ELSE "none")
       ELSE /\ fs' = r.val
            /\ pc' = "done"
            /\ result' = Ok(EditResult(loc.diff, call.dry_run))
            /\ UNCHANGED loc

(* create_directory *)

\* !Path::new(&path).exists() && sandbox.check_new_folders(path)
MayCreateExisting(f, rs, path) == CheckNewFolders(f, rs, path)

MayCreate(f, rs, path) == ~PathExists(f, path) /\ CheckNewFolders(f, rs, path)

CreateDirectory_Check(path) ==
  /\ pc = "idle"
  /\ nops < MaxOps
  /\ call' = [op |-> "create_directory", path |-> path]
  /\ pre' = fs
  /\ nops' = nops + 1
  /\ loc' = NoLoc
  /\ UNCHANGED <<fs, roots, made>>
  /\ IF MayCreate(fs, roots, path)
       THEN pc' = "cd_create" /\ result' = NoResult
       ELSE pc' = "done" /\ result' = Ok([message |-> "already exists"])

\* fs::create_dir_all(path)
CreateDirectory_CreateGrantsRoot ==
  /\ pc = "cd_create"
  /\ UNCHANGED <<call, loc, pre, nops>>
  /\ LET created == CreateDirAll(fs, call.path) IN
     /\ fs' = created.fs
     /\ pc' = "done"
     /\ result' = IF created.ok THEN Ok([message |-> ""]) ELSE Err("IoError")
     /\ made' = IF created.ok THEN made \cup {call.path} ELSE made
     /\ roots' = IF created.ok THEN Append(roots, call.path) ELSE roots

CreateDirectory_Create ==
  /\ pc = "cd_create"
  /\ UNCHANGED <<roots, call, loc, pre, nops>>
  /\ LET created == CreateDirAll(fs, call.path) IN
     /\ fs' = created.fs
     /\ pc' = "done"
     /\ result' = IF created.ok THEN Ok([message |-> ""]) ELSE Err("IoError")
     /\ made' = IF created.ok THEN made \cup {call.path} ELSE made

(* move_file *)

\* tokio::fs::rename(&source_canon_path, dest_canon_parent.join(dest_filename))
MoveFile_TargetIsSource(source_canon_path, dest_canon_parent, dest_filename) ==
  source_canon_path

MoveFile_Target(source_canon_path, dest_canon_parent, dest_filename) ==
  Append(dest_canon_parent, dest_filename)

\* move_file: resolve the source, resolve the parent of the destination, one
\* rename
MoveFile(source, destination) ==
  /\ pc = "idle"
  /\ nops < MaxOps
  /\ call' = [op |-> "move_file", source |-> source, destination |-> destination]
  /\ pre' = fs
  /\ nops' = nops + 1
  /\ pc' = "done"
  /\ UNCHANGED <<roots, made>>
  /\ LET source_canon_path == ResolvePath(fs, roots, source)
         dest_filename == FileName(destination)
         dest_parent == Parent(destination)
         dest_canon_parent ==
           IF dest_parent.ok THEN ResolvePath(fs, roots, dest_parent.val)
           ELSE dest_parent
     IN IF ~source_canon_path.ok
          THEN result' = source_canon_path /\ fs' = fs /\ loc' = NoLoc
        ELSE IF ~dest_filename.ok
          THEN result' = dest_filename /\ fs' = fs /\ loc' = NoLoc
        ELSE IF ~dest_canon_parent.ok
          THEN result' = dest_canon_parent /\ fs' = fs /\ loc' = NoLoc
        ELSE \E fail \in BOOLEAN :
               LET r == Rename(fs, source_canon_path.val,
                               MoveFile_Target(source_canon_path.val,
                                               dest_canon_parent.val,
                                               dest_filename.val))
               IN IF fail \/ ~r.ok
                    THEN /\ result' = Err("IoError")
                         /\ fs' = fs
                         /\ loc' = [fault |-> IF fail THEN "rename" ELSE "none"]
                    ELSE /\ result' = Ok([unit |-> TRUE])
                         /\ fs' = r.val
                         /\ loc' = NoLoc

(* the call returns; the process may die in the middle of a call *)

Return ==
  /\ pc = "done"
  /\ pc' = "idle"
  /\ call' = NoCall
  /\ loc' = NoLoc
  /\ result' = NoResult
  /\ pre' = fs
  /\ UNCHANGED <<fs, roots, made, nops>>

MidCall ==
  {"rf_read", "wf_create", "wf_write", "wf_rename", "ef_create", "ef_write",
   "ef_persist", "cd_create"}

Crash ==
  /\ pc \in MidCall
  /\ pc' = "crashed"
  /\ UNCHANGED <<fs, roots, made, call, loc, result, pre, nops>>

Next ==
  \/ \E path \in Paths : Call_ResolvePath(path)
  \/ \E path \in Paths : ReadFile_Open(path)
  \/ Grow
  \/ ReadFile_Read
  \/ \E paths \in PathLists : Call_ReadMultipleFiles(paths)
  \/ \E path \in SearchPaths : Call_GetFileInfo(path)
  \/ \E path \in SearchPaths : Call_ListDirectory(path)
  \/ \E path \in SearchPaths, args \in SearchArgs :
       Call_SearchFiles(path, args[1], args[2])
  \/ \E args \in WriteArgs : WriteFile_Begin(args[1], args[2])
  \/ WriteFile_TempCreate
  \/ WriteFile_TempWrite
  \/ WriteFile_Rename
  \/ \E path \in EditPaths, edits \in EditLists, dry_run \in BOOLEAN :
       EditFile_Begin(path, edits, dry_run)
  \/ EditFile_TempCreate
  \/ EditFile_TempWrite
  \/ EditFile_Persist
  \/ \E source \in MoveSources, destination \in MoveDestinations :
       MoveFile(source, destination)
  \/ \E path \in Paths : CreateDirectory_Check(path)
  \/ CreateDirectory_Create
  \/ Return
  \/ Crash

Spec == Init /\ [][Next]_vars

----------------------------------------------------------------------------
(* Startup (main.rs) and the tool that reveals the roots (server.rs) *)

MaxRoots == 2

\* values of --roots: a directory, a symlink to a directory outside it, a
\* path with a dot-dot, a regular file, a symlink to a file, a missing path
RootCandidates ==
  {<<"r">>, <<"o">>, <<"r", "l">>, <<"r", "d", "..">>, <<"r", "f">>,
   <<"r", "k">>, <<"r", "n">>}

RootLists == UNION {[1..n -> RootCandidates] : n \in 0..MaxRoots}

StartupInit ==
  /\ fs = FS0
  /\ roots = <<>>
  /\ pc = "boot"
  /\ \E args \in RootLists : call = [op |-> "main", roots |-> args]
  /\ loc = NoLoc
  /\ result = NoResult
  /\ pre = FS0
  /\ nops = 0
  /\ made = {}

\* main: Sandbox::new(args.roots) once; an error ends the process
Main ==
  /\ pc = "boot"
  /\ LET sandbox == SandboxNew(fs, call.roots) IN
     /\ result' = Named(sandbox, "roots")
     /\ roots' = IF sandbox.ok THEN sandbox.val ELSE roots
     /\ pc' = IF sandbox.ok THEN "done" ELSE "exit"
  /\ UNCHANGED <<fs, call, loc, pre, nops, made>>

\* list_allowed_directories: the JSON of a fixed array of two strings
Call_ListAllowedDirectories ==
  Answer([op |-> "list_allowed_directories"],
         Ok([directories |->
               << <<"h", "a", "r", "d", "e", "c", "o", "d", "e", "d">>,
                  <<"h", "a", "r", "d", "c", "o", "d", "e", "d", "2">> >>]))

StartupNext ==
  \/ Main
  \/ Call_ListAllowedDirectories
  \/ Return

Startup == StartupInit /\ [][StartupNext]_vars

----------------------------------------------------------------------------
(* A session on one file: written, edited, moved, and read in between *)

\* the mutating calls of the session, in order
ScenarioCalls == <<"write_file", "edit_file", "move_file">>

ScenarioOps == Len(ScenarioCalls)

Hello == <<"h", "e", "l", "l", "o">>

World == <<"w", "o", "r", "l", "d">>

FileA == <<"r", "a.txt">>

FileB == <<"r", "b.txt">>

\* paths outside the root: named directly, through a symlink inside the
\* root, and through a dot-dot
OutsidePaths == {<<"o", "s">>, <<"r", "l", "s">>, <<"r", "..", "o", "s">>}

\* the mutating calls made so far in the session
Step == nops - (MaxOps - ScenarioOps)

\* the file may or may not exist, with some other content, at the start
ScenarioInit ==
  /\ fs \in {FS0, Put(FS0, FileA, File(<<"b">>))}
  /\ roots = SandboxNew(FS0, RootArgs).val
  /\ pc = "idle"
  /\ call = NoCall
  /\ loc = NoLoc
  /\ result = NoResult
  /\ pre = fs
  /\ nops = MaxOps - ScenarioOps
  /\ made = {}

ScenarioNext ==
  \/ Step = 0 /\ WriteFile_Begin(FileA, Hello)
  \/ WriteFile_TempCreate
  \/ WriteFile_TempWrite
  \/ WriteFile_Rename
  \/ Step = 1 /\ EditFile_Begin(FileA, <<[old |-> Hello, new |-> World]>>, FALSE)
  \/ EditFile_TempCreate
  \/ EditFile_TempWrite
  \/ EditFile_Persist
  \/ Step = 2 /\ MoveFile(FileA, FileB)
  \/ \E path \in {FileA, FileB} \cup OutsidePaths : ReadFile_Open(path)
  \/ ReadFile_Read
  \/ Return

Scenario == ScenarioInit /\ [][ScenarioNext]_vars

----------------------------------------------------------------------------
(* The computation of edit_file on texts of several lines *)

MaxText == 2

MaxEdits == 3

\* file contents: texts over two letters and the line feed
RECURSIVE TextsOf(_)
TextsOf(n) ==
  IF n = 0 THEN {<<>>}
  ELSE LET shorter == TextsOf(n - 1) IN
       shorter \cup {Append(t, c) : t \in shorter, c \in {"a", "b", "\n"}}

Texts == TextsOf(MaxText)

\* Edit { old, new }: a letter replaced by nothing, a letter or a line
EditChoices ==
  [old : {<<"a">>, <<"b">>}, new : {<<>>, <<"a">>, <<"b">>, <<"b", "\n">>}]

EditChoiceLists == UNION {[1..n -> EditChoices] : n \in 0..MaxEdits}

EditingInit ==
  /\ fs = FS0
  /\ roots = SandboxNew(FS0, RootArgs).val
  /\ pc = "read"
  /\ \E original \in Texts, edits \in EditChoiceLists :
       call = [op |-> "edit_file", original |-> original, edits |-> edits]
  /\ loc = NoLoc
  /\ result = NoResult
  /\ pre = FS0
  /\ nops = 0
  /\ made = {}

\* let new_content = apply_edits(original.clone(), edits);
\* let diff = get_diffs(&original, &new_content).join("");
EditFile_Compute ==
  /\ pc = "read"
  /\ pc' = "done"
  /\ LET new_content == ApplyEdits(call.original, call.edits) IN
     result' = Ok([new_content |-> new_content,
                   diff |-> Join(GetDiffs(call.original, new_content))])
  /\ UNCHANGED <<fs, roots, made, call, loc, pre, nops>>

EditingNext ==
  \/ EditFile_Compute
  \/ Return

Editing == EditingInit /\ [][EditingNext]_vars

----------------------------------------------------------------------------
(* Two calls of write_file or edit_file running at once on one file; pc,
   call, loc and result hold one value per call *)

Tasks == {1, 2}

\* the file both calls name, directly or (edit_file) through a symlink
SharedFile == <<"r", "f">>

\* what each call is asked to do
TaskContents == <<(<<"b", "a">>), (<<"b">>)>>

TaskEdits ==
  << <<[old |-> <<"a">>, new |-> <<"x">>]>>,
     <<[old |-> <<"b">>, new |-> <<"y">>]>> >>

TempNameShared(t) == "tempfile-uuid"

\* Uuid::new_v4() / the random name of NamedTempFile: one per call
TempNameOf(t) == IF t = 1 THEN "tempfile-uuid-1" ELSE "tempfile-uuid-2"

ConcurrentInit ==
  /\ fs = FS0
  /\ roots = SandboxNew(FS0, RootArgs).val
  /\ pc = [t \in Tasks |-> "idle"]
  /\ call = [t \in Tasks |-> NoCall]
  /\ loc = [t \in Tasks |-> NoLoc]
  /\ result = [t \in Tasks |-> NoResult]
  /\ pre = FS0
  /\ nops = 0
  /\ made = {}

\* the call of task t ends with an error; its temp file is removed
Task_Fail(t, err) ==
  /\ pc' = [pc EXCEPT ![t] = "done"]
  /\ result' = [result EXCEPT ![t] = err]

\* write_file up to the naming of the temp file
Task_WriteFileBegin(t, path) ==
  /\ pc[t] = "idle"
  /\ call' = [call EXCEPT ![t] = [op |-> "write_file", path |-> path,
                                   content |-> TaskContents[t]]]
  /\ UNCHANGED <<fs, roots, made, pre, nops>>
  /\ LET filename == FileName(path)
         parent == Parent(path)
         canon_parent ==
           IF parent.ok THEN ResolvePath(fs, roots, parent.val) ELSE parent
     IN IF ~filename.ok \/ ~canon_parent.ok
          THEN /\ Task_Fail(t, IF ~filename.ok THEN filename ELSE canon_parent)
               /\ UNCHANGED loc
          ELSE /\ pc' = [pc EXCEPT ![t] = "create"]
               /\ loc' = [loc EXCEPT ![t] =
                    [target |-> Append(canon_parent.val, filename.val),
                     tmp |-> Append(canon_parent.val, TempNameOf(t)),
                     original |-> <<>>,
                     new_content |-> TaskContents[t],
                     written |-> 0,
                     fault |-> "none"]]
               /\ UNCHANGED result

\* edit_file up to the naming of the temp file: resolve, read, apply
Task_EditFileBegin(t, path) ==
  /\ pc[t] = "idle"
  /\ call' = [call EXCEPT ![t] = [op |-> "edit_file", path |-> path,
                                   edits |-> TaskEdits[t]]]
  /\ UNCHANGED <<fs, roots, made, pre, nops>>
  /\ LET canon_path == ResolvePath(fs, roots, path)
         original ==
           IF canon_path.ok THEN ReadToString(fs, canon_path.val) ELSE canon_path
     IN IF ~canon_path.ok \/ ~original.ok
          THEN /\ Task_Fail(t, IF ~canon_path.ok THEN canon_path
                                ELSE Err("IoError"))
               /\ UNCHANGED loc
          ELSE /\ pc' = [pc EXCEPT ![t] = "create"]
               /\ loc' = [loc EXCEPT ![t] =
                    [target |-> canon_path.val,
                     tmp |-> Append(Up(canon_path.val), TempNameOf(t)),
                     original |-> original.val,
                     new_content |-> ApplyEdits(original.val, TaskEdits[t]),
                     written |-> 0,
                     fault |-> "none"]]
               /\ UNCHANGED result

\* fs::write / NamedTempFile::new_in: the temp file is created
Task_TempCreate(t) ==
  /\ pc[t] = "create"
  /\ UNCHANGED <<roots, made, call, pre, nops>>
  /\ \E fail \in BOOLEAN :
       LET r == CreateEmpty(fs, loc[t].tmp) IN
       IF fail \/ ~r.ok
         THEN /\ fs' = TryRemove(fs, loc[t].tmp)
              /\ Task_Fail(t, Err("IoError"))
              /\ loc' = [loc EXCEPT ![t].fault = "temp_create"]
         ELSE /\ fs' = r.val
              /\ pc' = [pc EXCEPT ![t] =
                   IF loc[t].new_content = <<>> THEN "rename" ELSE "write"]
              /\ UNCHANGED <<loc, result>>

\* the new content goes into the temp file, one character at a time
Task_TempWrite(t) ==
  /\ pc[t] = "write"
  /\ UNCHANGED <<roots, made, call, pre, nops>>
  /\ \E fail \in BOOLEAN :
       LET r == AppendChar(fs, loc[t].tmp,
                           loc[t].new_content[loc[t].written + 1]) IN
       IF fail \/ ~r.ok
         THEN /\ fs' = TryRemove(fs, loc[t].tmp)
              /\ Task_Fail(t, Err("IoError"))
              /\ loc' = [loc EXCEPT ![t].fault = "temp_write"]
         ELSE /\ fs' = r.val
              /\ loc' = [loc EXCEPT ![t].written = @ + 1]
              /\ pc' = [pc EXCEPT ![t] =
                   IF loc[t].written + 1 = Len(loc[t].new_content)
                     THEN "rename" ELSE "write"]
              /\ UNCHANGED result

\* fs::rename / tmp.persist: the temp file is renamed onto the target
Task_Rename(t) ==
  /\ pc[t] = "rename"
  /\ UNCHANGED <<roots, made, call, pre, nops>>
  /\ \E fail \in BOOLEAN :
       LET r == Rename(fs, loc[t].tmp, loc[t].target) IN
       IF fail \/ ~r.ok
         THEN /\ fs' = TryRemove(fs, loc[t].tmp)
              /\ Task_Fail(t, Err("IoError"))
              /\ loc' = [loc EXCEPT ![t].fault = "rename"]
         ELSE /\ fs' = r.val
              /\ pc' = [pc EXCEPT ![t] = "done"]
              /\ result' = [result EXCEPT ![t] = Ok([unit |-> TRUE])]
              /\ UNCHANGED loc

ConcurrentNext ==
  \E t \in Tasks :
    \/ Task_WriteFileBegin(t, SharedFile)
    \/ \E path \in {SharedFile, <<"r", "k">>} : Task_EditFileBegin(t, path)
    \/ Task_TempCreate(t)
    \/ Task_TempWrite(t)
    \/ Task_Rename(t)

Concurrent == ConcurrentInit /\ [][ConcurrentNext]_vars

----------------------------------------------------------------------------
(* The worker pool of the stdio wrapper (tools_rust/wrapper, mcp_workers.rs).
   The state is held as follows:
     pc[0]      position of spawn_workers, pc[i] position of worker i
     call       the configuration: concurrency, http_pool_per_worker
     result     what spawn_workers holds: shared_client, handles, output_tx;
                and closed, set once the output consumer has seen the
                output channel closed
     fs         the two channels: input (queue of lines), input_open (a
                sender of the input channel remains), output (queue)
     loc[i]     the locals of worker i for the line it holds: line, attempt,
                last_err, and the stream_post calls and sleeps made so far
     nops       the number of lines sent on the input channel so far
     made       per line: the workers that received it and the results and
                errors sent for it
   stream_post and sleep touch nothing shared, so a turn of the attempt
   loop is one step. *)

MAX_RETRIES == 5

MaxWorkers == 2

WorkerIds == 1..MaxWorkers
\* the lines the reader of standard input sends, numbered in order
InputLines == {1, 2}
LastLine == Cardinality(InputLines)
Spawner == 0

NoLine ==
  [line |-> 0, attempt |-> 0, posts |-> 0, sleeps |-> 0, last_err |-> 0]

Untouched == [received_by |-> {}, results |-> 0, errors |-> 0]

WorkersInit ==
  /\ pc = [i \in {Spawner} \cup WorkerIds |->
             IF i = Spawner THEN "shared_client" ELSE "unspawned"]
  /\ call \in [concurrency : 0..MaxWorkers, http_pool_per_worker : BOOLEAN]
  /\ result = [shared_client |-> FALSE, handles |-> 0, output_tx |-> TRUE,
               closed |-> FALSE]
  /\ fs = [input |-> <<>>, input_open |-> TRUE, output |-> <<>>]
  /\ loc = [i \in WorkerIds |-> NoLine]
  /\ nops = 0
  /\ made = [l \in InputLines |-> Untouched]
  /\ roots = {}
  /\ pre = FS0

\* the workers that hold a clone of the output sender
Running == {i \in WorkerIds : pc[i] \notin {"unspawned", "failed", "exited"}}

\* no sender of the output channel remains
OutputClosed == ~result.output_tx /\ Running = {}

\* spawn_workers l.26-36: the shared client, unless pools are per worker;
\* a failure to build it falls back to per-worker clients
SpawnWorkers_SharedClient ==
  /\ pc[Spawner] = "shared_client"
  /\ \E built \in BOOLEAN :
       result' = [result EXCEPT !.shared_client =
                    ~call.http_pool_per_worker /\ built]
  /\ pc' = [pc EXCEPT ![Spawner] = "spawn"]
  /\ UNCHANGED <<fs, roots, made, call, loc, pre, nops>>

\* spawn_workers l.39-90: one turn of the loop spawns the next worker
SpawnWorkers_Spawn ==
  /\ pc[Spawner] = "spawn"
  /\ IF result.handles < call.concurrency
       THEN /\ pc' = [pc EXCEPT ![result.handles + 1] = "start"]
            /\ result' = [result EXCEPT !.handles = @ + 1]
       ELSE /\ pc' = [pc EXCEPT ![Spawner] = "drop"]
            /\ UNCHANGED result
  /\ UNCHANGED <<fs, roots, made, call, loc, pre, nops>>

SpawnWorkers_KeepOutputTx ==
  /\ pc[Spawner] = "drop"
  /\ pc' = [pc EXCEPT ![Spawner] = "returned"]
  /\ UNCHANGED <<result, fs, roots, made, call, loc, pre, nops>>

\* spawn_workers l.92-93: drop(output_tx); handles
SpawnWorkers_Return ==
  /\ pc[Spawner] = "drop"
  /\ result' = [result EXCEPT !.output_tx = FALSE]
  /\ pc' = [pc EXCEPT ![Spawner] = "returned"]
  /\ UNCHANGED <<fs, roots, made, call, loc, pre, nops>>

Worker_StartWithoutClient(i) ==
  /\ pc[i] = "start"
  /\ pc' = [pc EXCEPT ![i] = "recv"]
  /\ UNCHANGED <<fs, roots, made, call, loc, result, pre, nops>>

\* l.46-57: the worker takes the shared client or builds its own, and
\* returns when that fails
Worker_Start(i) ==
  /\ pc[i] = "start"
  /\ \E built \in BOOLEAN :
       pc' = [pc EXCEPT ![i] =
                IF result.shared_client \/ built THEN "recv" ELSE "failed"]
  /\ UNCHANGED <<fs, roots, made, call, loc, result, pre, nops>>

Worker_RecvLeavingLine(i) ==
  /\ pc[i] = "recv"
  /\ fs.input # <<>>
  /\ LET line == Head(fs.input) IN
       /\ loc' = [loc EXCEPT ![i] = [NoLine EXCEPT !.line = line]]
       /\ made' = [made EXCEPT ![line].received_by = @ \cup {i}]
  /\ pc' = [pc EXCEPT ![i] = "post"]
  /\ UNCHANGED <<fs, roots, call, result, pre, nops>>

\* l.59 while let Ok(line) = rx.recv_async().await: the head of the queue
\* goes to this worker; an empty queue with no sender left ends the loop
Worker_Recv(i) ==
  /\ pc[i] = "recv"
  /\ IF fs.input # <<>>
       THEN LET line == Head(fs.input) IN
            /\ fs' = [fs EXCEPT !.input = Tail(@)]
            /\ loc' = [loc EXCEPT ![i] = [NoLine EXCEPT !.line = line]]
            /\ made' = [made EXCEPT ![line].received_by = @ \cup {i}]
            /\ pc' = [pc EXCEPT ![i] = "post"]
       ELSE /\ ~fs.input_open
            /\ pc' = [pc EXCEPT ![i] = "exited"]
            /\ UNCHANGED <<fs, loc, made>>
  /\ UNCHANGED <<roots, call, result, pre, nops>>

\* what write_output and mcp_error put on the output channel; last_err is
\* the number of the attempt whose error is reported
Message(line, kind, last_err) ==
  [line |-> line, kind |-> kind, last_err |-> last_err]

\* write_output(i, &tx, res)
WriteOutput(f, line) ==
  [f EXCEPT !.output = Append(@, Message(line, "result", 0))]

\* mcp_error(&i, &line, &last_err, &tx)
McpError(f, line, last_err) ==
  [f EXCEPT !.output = Append(@, Message(line, "error", last_err))]

Worker_StreamPostSleepingAlways(i) ==
  /\ pc[i] = "post"
  /\ \E ok \in BOOLEAN :
       IF ok
         THEN /\ fs' = WriteOutput(fs, loc[i].line)
              /\ made' = [made EXCEPT ![loc[i].line].results = @ + 1]
              /\ loc' = [loc EXCEPT ![i] = NoLine]
              /\ pc' = [pc EXCEPT ![i] = "recv"]
         ELSE /\ loc' = [loc EXCEPT
                   ![i].posts = @ + 1,
                   ![i].last_err = loc[i].attempt + 1,
                   ![i].sleeps = @ + 1,
                   ![i].attempt = IF @ < MAX_RETRIES THEN @ + 1 ELSE @]
              /\ pc' = [pc EXCEPT ![i] =
                   IF loc[i].attempt < MAX_RETRIES THEN "post" ELSE "after"]
              /\ UNCHANGED <<fs, made>>
  /\ UNCHANGED <<roots, call, result, pre, nops>>

\* l.63-82: one turn of the attempt loop. A success sends the result and
\* takes the worker, the break taken and !succeeded false, back to
\* recv_async; a failure is kept in last_err and followed by a sleep and
\* the next turn, unless it was the last turn
Worker_StreamPost(i) ==
  /\ pc[i] = "post"
  /\ \E ok \in BOOLEAN :
       IF ok
         THEN /\ fs' = WriteOutput(fs, loc[i].line)
              /\ made' = [made EXCEPT ![loc[i].line].results = @ + 1]
              /\ loc' = [loc EXCEPT ![i] = NoLine]
              /\ pc' = [pc EXCEPT ![i] = "recv"]
         ELSE /\ loc' = [loc EXCEPT
                   ![i].posts = @ + 1,
                   ![i].last_err = loc[i].attempt + 1,
                   ![i].sleeps = IF loc[i].attempt < MAX_RETRIES THEN @ + 1 ELSE @,
                   ![i].attempt = IF @ < MAX_RETRIES THEN @ + 1 ELSE @]
              /\ pc' = [pc EXCEPT ![i] =
                   IF loc[i].attempt < MAX_RETRIES THEN "post" ELSE "after"]
              /\ UNCHANGED <<fs, made>>
  /\ UNCHANGED <<roots, call, result, pre, nops>>

\* l.84-87: the loop ended without success: mcp_error, then recv_async
Worker_McpError(i) ==
  /\ pc[i] = "after"
  /\ fs' = McpError(fs, loc[i].line, loc[i].last_err)
  /\ made' = [made EXCEPT ![loc[i].line].errors = @ + 1]
  /\ loc' = [loc EXCEPT ![i] = NoLine]
  /\ pc' = [pc EXCEPT ![i] = "recv"]
  /\ UNCHANGED <<roots, call, result, pre, nops>>

\* the reader of standard input sends a line on the input channel
Input_Send ==
  /\ fs.input_open
  /\ nops < LastLine
  /\ nops' = nops + 1
  /\ fs' = [fs EXCEPT !.input = Append(@, nops + 1)]
  /\ UNCHANGED <<roots, made, pc, call, loc, result, pre>>

\* ... and drops its sender at the end of the input
Input_Close ==
  /\ fs.input_open
  /\ fs' = [fs EXCEPT !.input_open = FALSE]
  /\ UNCHANGED <<roots, made, pc, call, loc, result, pre, nops>>

\* the writer of standard output receives from the output channel
Output_Recv ==
  /\ ~result.closed
  /\ IF fs.output # <<>>
       THEN /\ fs' = [fs EXCEPT !.output = Tail(@)]
            /\ UNCHANGED result
       ELSE /\ OutputClosed
            /\ result' = [result EXCEPT !.closed = TRUE]
            /\ UNCHANGED fs
  /\ UNCHANGED <<roots, made, pc, call, loc, pre, nops>>

Worker(i) ==
  \/ Worker_Start(i)
  \/ Worker_Recv(i)
  \/ Worker_StreamPost(i)
  \/ Worker_McpError(i)

WorkersNext ==
  \/ SpawnWorkers_SharedClient
  \/ SpawnWorkers_Spawn
  \/ SpawnWorkers_Return
  \/ \E i \in WorkerIds : Worker(i)
  \/ Input_Send
  \/ Input_Close
  \/ Output_Recv

Workers == WorkersInit /\ [][WorkersNext]_vars

\* every task the runtime holds is polled again and again, every await of
\* stream_post, sleep and of the channels completes when it can, and the
\* writer of standard output keeps receiving
WorkersFair ==
  /\ Workers
  /\ WF_vars(SpawnWorkers_SharedClient)
  /\ WF_vars(SpawnWorkers_Spawn)
  /\ WF_vars(SpawnWorkers_Return)
  /\ \A i \in WorkerIds : WF_vars(Worker(i))
  /\ WF_vars(Output_Recv)

----------------------------------------------------------------------------
(* The regex filter plugin (plugins_rust/regex_filter, lib.rs).
   A search pattern is a sequence of characters: "a" and "b" stand for
   themselves, "." for any character, "+" repeats what precedes it one or
   more times, "[" opens a character class. Subjects are texts over "a" and
   "b"; replacements hold no "$", so nothing in them is expanded.
   The state is held as follows:
     call     the argument of SearchReplacePluginRust::new (the value under
              'words') and the text given to apply_patterns
     loc      what from_py_dict returned
     result   what apply_patterns returned *)

\* entries of the 'words' list
MaxWords == 2

\* Regex::new fails on a class that is never closed and on a repetition
\* with nothing to repeat
Compiles(search) ==
  /\ \A k \in 1..Len(search) : search[k] # "["
  /\ search # <<>> => search[1] # "+"

\* the compiled pattern: one atom for a character and the "+" after it
RECURSIVE Atoms(_)
Atoms(search) ==
  IF search = <<>> THEN <<>>
  ELSE IF Len(search) >= 2 /\ search[2] = "+"
    THEN <<[ch |-> search[1], plus |-> TRUE]>> \o
         Atoms(SubSeq(search, 3, Len(search)))
  ELSE <<[ch |-> search[1], plus |-> FALSE]>> \o Atoms(Tail(search))

RegexNew(search) ==
  IF Compiles(search) THEN Ok(Atoms(search)) ELSE Err("regex::Error")

AtomMatches(ch, c) == ch = "." \/ ch = c

\* the number of characters from position i on that the atom matches
RECURSIVE RunOf(_, _, _)
RunOf(ch, text, i) ==
  IF i <= Len(text) /\ AtomMatches(ch, text[i])
    THEN 1 + RunOf(ch, text, i + 1) ELSE 0

Longest(S) == CHOOSE n \in S : \A m \in S : m <= n

\* where the match of atoms k.. that starts at position i ends (the position
\* after its last character), 0 when there is none; a repetition is greedy
RECURSIVE MatchEnd(_, _, _, _)
MatchEnd(atoms, k, text, i) ==
  IF k > Len(atoms) THEN i
  ELSE IF ~atoms[k].plus
    THEN IF i <= Len(text) /\ AtomMatches(atoms[k].ch, text[i])
           THEN MatchEnd(atoms, k + 1, text, i + 1) ELSE 0
  ELSE LET fits == {n \in 1..RunOf(atoms[k].ch, text, i) :
                      MatchEnd(atoms, k + 1, text, i + n) # 0}
       IN IF fits = {} THEN 0
          ELSE MatchEnd(atoms, k + 1, text, i + Longest(fits))

\* Regex::is_match
IsMatch(atoms, text) ==
  \E i \in 1..(Len(text) + 1) : MatchEnd(atoms, 1, text, i) # 0

\* Regex::replace_all from position i on: the leftmost match, then the
\* next one after it; an empty match is replaced and the character after it
\* kept
RECURSIVE ReplaceAllFrom(_, _, _, _)
ReplaceAllFrom(atoms, text, replace, i) ==
  IF i > Len(text) + 1 THEN <<>>
  ELSE LET e == MatchEnd(atoms, 1, text, i) IN
       IF e > i THEN replace \o ReplaceAllFrom(atoms, text, replace, e)
       ELSE (IF e = i THEN replace ELSE <<>>) \o
            (IF i <= Len(text)
               THEN <<text[i]>> \o ReplaceAllFrom(atoms, text, replace, i + 1)
               ELSE <<>>)

ReplaceAll(atoms, text, replace) == ReplaceAllFrom(atoms, text, replace, 1)

\* Option<RegexSet>
NoPatternSet == [some |-> FALSE, patterns |-> <<>>]
SomePatternSet(patterns) == [some |-> TRUE, patterns |-> patterns]

\* an item of the 'words' list
DictItem(search, replace) ==
  [is_dict |-> TRUE, has_search |-> TRUE, has_replace |-> TRUE,
   search |-> search, replace |-> replace]

WordItems ==
  { DictItem(<<"a">>, <<"b">>),
    DictItem(<<"b">>, <<"a">>),
    DictItem(<<"a", "+">>, <<>>),
    DictItem(<<".", "b">>, <<"b", "b">>),
    DictItem(<<"[">>, <<"a">>),
    DictItem(<<"+">>, <<>>),
    [DictItem(<<>>, <<"a">>) EXCEPT !.has_search = FALSE],
    [DictItem(<<"b">>, <<>>) EXCEPT !.has_replace = FALSE],
    [DictItem(<<>>, <<>>) EXCEPT !.is_dict = FALSE,
                                 !.has_search = FALSE, !.has_replace = FALSE] }

\* the values under 'words': lists of items, and a value that is no list
WordsValues ==
  {[is_list |-> TRUE, items |-> items] :
     items \in UNION {[1..n -> WordItems] : n \in 0..MaxWords}}
  \cup {[is_list |-> FALSE, items |-> <<>>]}

Subjects == UNION {[1..n -> {"a", "b"}] : n \in 0..3}

\* from_py_dict l.41-76: the loop over the list. A missing field returns
\* at once (the ? of l.44-54); an item that is no dict is passed over
RECURSIVE ScanWords(_, _, _)
ScanWords(items, idx, acc) ==
  IF idx >= Len(items) THEN acc
  ELSE LET item == items[idx + 1] IN
    IF ~item.is_dict THEN ScanWords(items, idx + 1, acc)
    ELSE IF ~item.has_search
      THEN [acc EXCEPT !.raised = "Missing 'search' field"]
    ELSE IF ~item.has_replace
      THEN [acc EXCEPT !.raised = "Missing 'replace' field"]
    ELSE LET compiled == RegexNew(item.search) IN
      IF compiled.ok
        THEN ScanWords(items, idx + 1,
               [acc EXCEPT !.words =
                  Append(@, [search |-> item.search, replace |-> item.replace,
                             compiled |-> compiled.val])])
        ELSE ScanWords(items, idx + 1,
               [acc EXCEPT !.validation_errors =
                  Append(@, [idx |-> idx, search |-> item.search])])

Searches(words) == [k \in 1..Len(words) |-> words[k].search]

\* SearchReplaceConfig::from_py_dict; set_built tells whether RegexSet::new
\* succeeded. The error carries its message and the patterns it lists
FromPyDict(words_value, set_built) ==
  LET none == [words |-> <<>>, validation_errors |-> <<>>, raised |-> ""]
      scan == IF words_value.is_list
                THEN ScanWords(words_value.items, 0, none) ELSE none
      failed(msg, listed) ==
        [ok |-> FALSE, err |-> msg, listed |-> listed,
         words |-> <<>>, pattern_set |-> NoPatternSet]
  IN IF scan.raised # "" THEN failed(scan.raised, <<>>)
     ELSE IF scan.validation_errors # <<>>
       THEN failed("Invalid regex patterns detected", scan.validation_errors)
     ELSE [ok |-> TRUE, err |-> "", listed |-> <<>>,
           words |-> scan.words,
           pattern_set |-> IF scan.words # <<>> /\ set_built
                             THEN SomePatternSet(Searches(scan.words))
                             ELSE NoPatternSet]

PatternSetIsMatchFirst(pattern_set, text) ==
  IsMatch(Atoms(pattern_set.patterns[1]), text)

\* RegexSet::is_match: some pattern of the set matches
PatternSetIsMatch(pattern_set, text) ==
  \E k \in 1..Len(pattern_set.patterns) :
    IsMatch(Atoms(pattern_set.patterns[k]), text)

RECURSIVE ApplyWordsToOriginal(_, _)
ApplyWordsToOriginal(words, text) ==
  IF words = <<>> THEN text
  ELSE LET last == words[Len(words)]
           sofar == ApplyWordsToOriginal(SubSeq(words, 1, Len(words) - 1), text)
       IN IF IsMatch(last.compiled, text)
            THEN ReplaceAll(last.compiled, text, last.replace) ELSE sofar

\* apply_patterns l.163-182: the loop over the patterns
RECURSIVE ApplyWords(_, _)
ApplyWords(words, text) ==
  IF words = <<>> THEN text
  ELSE LET pattern == Head(words) IN
       ApplyWords(Tail(words),
                  IF IsMatch(pattern.compiled, text)
                    THEN ReplaceAll(pattern.compiled, text, pattern.replace)
                    ELSE text)

\* apply_patterns l.155-160: the early exit
EarlyExit(config, text) ==
  config.pattern_set.some /\ ~PatternSetIsMatch(config.pattern_set, text)

\* SearchReplacePluginRust::apply_patterns
ApplyPatterns(config, text) ==
  IF EarlyExit(config, text) THEN text ELSE ApplyWords(config.words, text)

FilterInit ==
  /\ pc = "new"
  /\ call \in [words : WordsValues, text : Subjects]
  /\ loc = FromPyDict([is_list |-> FALSE, items |-> <<>>], FALSE)
  /\ result = NoResult
  /\ fs = FS0
  /\ roots = {}
  /\ pre = FS0
  /\ nops = 0
  /\ made = {}

\* SearchReplacePluginRust::new
Plugin_New ==
  /\ pc = "new"
  /\ \E set_built \in BOOLEAN : loc' = FromPyDict(call.words, set_built)
  /\ pc' = IF loc'.ok THEN "ready" ELSE "failed"
  /\ UNCHANGED <<fs, roots, made, call, result, pre, nops>>

Plugin_ApplyPatterns ==
  /\ pc = "ready"
  /\ result' = Ok([text |-> ApplyPatterns(loc, call.text)])
  /\ pc' = "applied"
  /\ UNCHANGED <<fs, roots, made, call, loc, pre, nops>>

FilterNext == Plugin_New \/ Plugin_ApplyPatterns

Filter == FilterInit /\ [][FilterNext]_vars

----------------------------------------------------------------------------
(* Mutating calls while another process rearranges the tree under the root *)

\* the directory inside the root that the other process replaces
RaceDir == <<"r", "d">>

\* targets in that directory: a new name and an existing file
RacePaths == {<<"r", "d", "n">>, <<"r", "d", "F">>}

\* another process replaces the directory by a symlink to a directory outside
\* every root, while a call is between its containment check and its next
\* filesystem step
Swap ==
  /\ pc \in MidCall \ {"rf_read"}
  /\ Exists(fs, RaceDir)
  /\ fs[RaceDir].kind = "dir"
  /\ fs' = Put(Drop(fs, Under(fs, RaceDir)), RaceDir, Link(<<"o">>))
  /\ UNCHANGED <<roots, made, pc, call, loc, result, pre, nops>>

RaceNext ==
  \/ \E path \in RacePaths, content \in Contents : WriteFile_Begin(path, content)
  \/ WriteFile_TempCreate
  \/ WriteFile_TempWrite
  \/ WriteFile_Rename
  \/ \E path \in RacePaths, edits \in EditLists : EditFile_Begin(path, edits, FALSE)
  \/ EditFile_TempCreate
  \/ EditFile_TempWrite
  \/ EditFile_Persist
  \/ \E destination \in RacePaths : MoveFile(<<"r", "f">>, destination)
  \/ \E path \in RacePaths : CreateDirectory_Check(path)
  \/ CreateDirectory_Create
  \/ Swap
  \/ Return

Race == Init /\ [][RaceNext]_vars


----------------------------------------------------------------------------
(* Properties *)

\* a physical location that is a root or lies below one
Contained(q) ==
  \E i \in 1..Len(roots), n \in 0..Len(q) : SubSeq(q, 1, n) = roots[i]

Returned(op) == pc = "done" /\ call.op = op

\* every entry that existed when the call started is still there, unchanged
Kept == \A q \in DOMAIN pre : q \in DOMAIN fs /\ fs[q] = pre[q]

\* C1: resolve_path returns a path only if the canonical form of its argument
\* is a root or a descendant of one, and then returns exactly that canonical
\* form; it fails when the argument cannot be canonicalized, fails with
\* OutsideSandbox when the canonical form is outside every root (via "..", via
\* a symlink inside a root, or directly), and succeeds for every existing path
\* whose canonical form is inside a root.
C1_ResolvePathContainment ==
  Returned("resolve_path") =>
    LET canon == Canonicalize(fs, call.path) IN
    /\ result.ok =>
         canon.ok /\ result.val.path = canon.val /\ Contained(result.val.path)
    /\ ~canon.ok => ~result.ok
    /\ canon.ok /\ ~Contained(canon.val) =>
         ~result.ok /\ result.err = "OutsideSandbox"
    /\ canon.ok /\ Contained(canon.val) => result.ok

\* C1 witness: a path that lexically lies below the root but leaves it through
\* a symlink or ".." has been rejected
C1_Witness ==
  /\ Returned("resolve_path")
  /\ StartsWith(call.path, roots[1])
  /\ Canonicalize(fs, call.path).ok
  /\ ~Contained(Canonicalize(fs, call.path).val)
  /\ ~result.ok

\* C2: after create_directory has returned, every entry that did not exist
\* before the call lies inside some root.
C2_CreateDirectoryStaysInside ==
  Returned("create_directory") =>
    \A q \in DOMAIN fs \ DOMAIN pre : Contained(q)

\* the path did not exist and no ancestor of it canonicalizes into a root
NoContainedAncestor(f, p) ==
  /\ ~PathExists(f, p)
  /\ \A i \in 1..(Len(p) + 1) :
       LET canon == Canonicalize(f, Ancestors(p)[i]) IN
       ~(canon.ok /\ Contained(canon.val))

\* C3: create_directory on a path that does not exist and none of whose
\* ancestors is contained in a root returns an OutsideSandbox error and
\* creates nothing.
C3_CreateDirectoryOutsideIsError ==
  Returned("create_directory") /\ NoContainedAncestor(pre, call.path) =>
    ~result.ok /\ result.err = "OutsideSandbox" /\ fs = pre

\* C4: when write_file fails at the temp-file write or at the rename, or is
\* interrupted at any point before the rename has happened, every entry that
\* existed before the call (the target included) is unchanged, reading the
\* target path gives what it gave before, and a failed step makes the call
\* return an error.
C4_WriteFileFailureAtomic ==
  /\ call.op = "write_file" /\ pc \in {"wf_create", "wf_write", "wf_rename", "crashed"} =>
       Kept /\ ReadToString(fs, call.path) = ReadToString(pre, call.path)
  /\ Returned("write_file") /\ (loc.fault # "none" \/ ~result.ok) =>
       /\ ~result.ok
       /\ Kept
       /\ ReadToString(fs, call.path) = ReadToString(pre, call.path)

\* C4 witness: the rename onto an existing file failed after the temp file was
\* completely written
C4_Witness ==
  /\ Returned("write_file")
  /\ loc.fault = "rename"
  /\ ReadToString(pre, call.path).ok
  /\ call.content # <<>>

\* the complete content a mutating call installs at its target
NewContent ==
  IF call.op = "write_file" THEN call.content
  ELSE ApplyEdits(ReadToString(pre, call.path).val, call.edits)

\* C5: at every point of a write_file or of a non-dry-run edit_file, a read of
\* the target path gives either what it gave before the call or the complete
\* new content, never a prefix or a mixture.
C5_NoPartialContent ==
  (\/ call.op = "write_file"
   \/ call.op = "edit_file" /\ ~call.dry_run) =>
    LET now == ReadToString(fs, call.path)
        old == ReadToString(pre, call.path)
    IN now = old \/ (now.ok /\ now.val = NewContent)

\* C5 witness: half of the new content has been written to the temp file while
\* the target still exists with its old content
C5_Witness ==
  /\ call.op \in {"write_file", "edit_file"}
  /\ pc \in {"wf_write", "ef_write"}
  /\ loc.written = 1
  /\ ReadToString(fs, call.path).ok
  /\ ReadToString(fs, call.path).val # <<>>

\* C6: after a successful write_file(path, c) a read of path returns exactly c,
\* whether or not a file existed at the path before.
C6_WriteReadRoundTrip ==
  Returned("write_file") /\ result.ok =>
    ReadToString(fs, call.path) = Ok(call.content)

\* C6 witness: an existing file with other content has been overwritten
C6_Witness ==
  /\ Returned("write_file")
  /\ result.ok
  /\ ReadToString(pre, call.path).ok
  /\ ReadToString(pre, call.path).val # call.content

\* the parent of the path does not exist, is outside every root, or the path
\* has no file name
BadWriteTarget(f, p) ==
  \/ p = <<>>
  \/ p[Len(p)] = ".."
  \/ LET par == Canonicalize(f, SubSeq(p, 1, Len(p) - 1)) IN
     ~par.ok \/ ~Contained(par.val)

\* C7: write_file succeeds only if the parent of the path canonicalizes to a
\* directory inside a root, and then the only change is that
\* canonical_parent/leaf is a regular file with the content; when the parent
\* does not exist, is outside every root, or the path has no file name, the
\* call returns an error without ever creating a file.
C7_WriteFileResolvesParent ==
  call.op = "write_file" =>
    /\ pc = "done" /\ result.ok =>
         /\ ~BadWriteTarget(pre, call.path)
         /\ LET par == Canonicalize(pre, SubSeq(call.path, 1, Len(call.path) - 1)).val
                target == Append(par, call.path[Len(call.path)])
            IN /\ IsDirAt(pre, par)
               /\ DOMAIN fs = DOMAIN pre \cup {target}
               /\ fs[target] = File(call.content)
               /\ \A q \in DOMAIN pre \ {target} : fs[q] = pre[q]
    /\ BadWriteTarget(pre, call.path) =>
         pc = "done" /\ ~result.ok /\ fs = pre

\* C7 witness: a write whose parent resolves through a symlink to a directory
\* outside every root has been refused
C7_Witness ==
  /\ Returned("write_file")
  /\ ~result.ok
  /\ call.path # <<>>
  /\ LET par == Canonicalize(pre, SubSeq(call.path, 1, Len(call.path) - 1)) IN
     par.ok /\ ~Contained(par.val) /\ StartsWith(call.path, roots[1])

ReadOps == {"read_file", "get_file_info", "list_directory", "search_files"}

C9_DryRunLeavesFilesystem ==
  call.op = "edit_file" /\ call.dry_run =>
    /\ pc = "done"
    /\ fs = pre
    /\ result.ok => result.val.applied = FALSE
    /\ LET canon == Canonicalize(pre, call.path) IN
       canon.ok /\ Contained(canon.val) /\ pre[canon.val].kind = "file" => result.ok

\* C9 witness: a dry run whose edits match has returned
C9_Witness ==
  /\ Returned("edit_file")
  /\ call.dry_run
  /\ result.ok
  /\ ApplyEdits(ReadToString(pre, call.path).val, call.edits)
       # ReadToString(pre, call.path).val

\* no edit's old fragment occurs in the content
NoMatch(content, edits) ==
  \A i \in 1..Len(edits) : ~Contains(content, edits[i].old)

\* C10: every successful edit_file returns applied = !dry_run; a non-dry-run
\* call on a readable file in which no old fragment occurs succeeds unless a
\* filesystem step fails, returns applied = true and leaves the content of the
\* file as it was.
C10_AppliedIsNotDryRun ==
  Returned("edit_file") =>
    /\ result.ok => result.val.applied = ~call.dry_run
    /\ LET original == ReadToString(pre, call.path)
           canon == Canonicalize(pre, call.path)
       IN
       /\ ~call.dry_run
       /\ canon.ok /\ Contained(canon.val) /\ original.ok
       /\ NoMatch(original.val, call.edits)
       => /\ loc.fault = "none" => result.ok
          /\ result.ok => result.val.applied
          /\ ReadToString(fs, call.path) = original

\* C10 witness: a non-dry-run edit of an empty file with an edit that does not
\* match has returned applied = true
C10_Witness ==
  /\ Returned("edit_file")
  /\ ~call.dry_run
  /\ call.edits # <<>>
  /\ ReadToString(pre, call.path) = Ok(<<>>)
  /\ result.ok
  /\ result.val.applied

\* the text s from position i on, every occurrence of the non-empty fragment
\* old found scanning left to right replaced by new
RECURSIVE Substituted(_, _, _, _)
Substituted(s, old, new, i) ==
  IF i > Len(s) THEN <<>>
  ELSE IF i + Len(old) - 1 <= Len(s) /\ SubSeq(s, i, i + Len(old) - 1) = old
    THEN new \o Substituted(s, old, new, i + Len(old))
  ELSE <<s[i]>> \o Substituted(s, old, new, i + 1)

\* the content after the first n edits of the list
RECURSIVE Folded(_, _, _)
Folded(content, edits, n) ==
  IF n = 0 THEN content
  ELSE LET sofar == Folded(content, edits, n - 1)
           e == edits[n]
       IN IF \E i \in 1..Len(sofar) : SubSeq(sofar, i, i + Len(e.old) - 1) = e.old
            THEN Substituted(sofar, e.old, e.new, 1)
            ELSE sofar

\* C11: after a successful non-dry-run edit_file the file holds the original
\* content with the edits folded over it in list order, an edit whose old
\* fragment occurs replacing every occurrence, an edit whose old fragment does
\* not occur being skipped without error and without stopping the later edits.
C11_EditFoldsInOrder ==
  Returned("edit_file") /\ ~call.dry_run =>
    LET original == ReadToString(pre, call.path) IN
    /\ result.ok =>
         ReadToString(fs, call.path) =
           Ok(Folded(original.val, call.edits, Len(call.edits)))
    /\ ResolvePath(pre, roots, call.path).ok /\ original.ok /\ loc.fault = "none"
         => result.ok

\* C11 witness: a list whose first edit does not match and whose later edits
\* do has rewritten both characters of the file
C11_Witness ==
  /\ Returned("edit_file")
  /\ ~call.dry_run
  /\ result.ok
  /\ Len(call.edits) = 3
  /\ ~Contains(ReadToString(pre, call.path).val, call.edits[1].old)
  /\ ReadToString(pre, call.path) = Ok(<<"a", "b">>)
  /\ ReadToString(fs, call.path) = Ok(<<"a", "a">>)


\* the canonical location of the source of the move in flight
MoveFrom == Canonicalize(pre, call.source)

\* the canonical parent of the destination of the move in flight
MoveParent ==
  IF call.destination = <<>> THEN Err("NoParent")
  ELSE Canonicalize(pre, SubSeq(call.destination, 1, Len(call.destination) - 1))

\* canonical_destination_parent/destination_leaf
MoveTo == Append(MoveParent.val, call.destination[Len(call.destination)])

\* the source exists inside a root and the parent of the destination is a
\* directory inside a root
MoveResolvable ==
  /\ MoveFrom.ok /\ Contained(MoveFrom.val)
  /\ MoveParent.ok /\ Contained(MoveParent.val) /\ IsDirAt(pre, MoveParent.val)

\* C12 as stated: whenever the source exists inside a root and the parent of
\* the destination exists inside a root, move_file succeeds, the source path
\* no longer exists and the destination holds what the source held.
C12_MoveSucceedsWheneverResolvable ==
  Returned("move_file") /\ loc.fault = "none" /\ MoveResolvable =>
    /\ result.ok
    /\ ~PathExists(fs, call.source)
    /\ call.destination[Len(call.destination)] # ".."
    /\ Exists(fs, MoveTo) /\ fs[MoveTo] = pre[MoveFrom.val]

\* C12: move_file succeeds only if the source canonicalizes inside a root and
\* the destination has a file name and a parent that canonicalizes inside a
\* root.  When the source is a regular file, the destination location is not
\* an existing directory and the rename does not fail, it does succeed.  After
\* a success whose destination location is not the canonical source itself,
\* the canonical source location is gone, the destination location holds
\* exactly the node the source held (a directory with its whole subtree) in
\* place of whatever was there, and nothing else has changed; a move onto the
\* canonical source itself succeeds and changes nothing.
C12_MoveRenamesCanonicalSource ==
  Returned("move_file") =>
    /\ result.ok =>
         /\ MoveResolvable
         /\ FileName(call.destination).ok
         /\ IF MoveTo = MoveFrom.val THEN fs = pre
            ELSE LET moved == Under(pre, MoveFrom.val)
                     at(x) == MoveTo \o SubSeq(x, Len(MoveFrom.val) + 1, Len(x))
                     gone == moved \cup Under(pre, MoveTo)
                 IN /\ DOMAIN fs = (DOMAIN pre \ gone) \cup {at(x) : x \in moved}
                    /\ \A x \in moved : fs[at(x)] = pre[x]
                    /\ \A q \in DOMAIN pre \ gone : fs[q] = pre[q]
                    /\ ~Exists(fs, MoveFrom.val)
    /\ /\ MoveResolvable
       /\ FileName(call.destination).ok
       /\ pre[MoveFrom.val].kind = "file"
       /\ ~IsDirAt(pre, MoveTo)
       /\ loc.fault = "none"
       => result.ok

\* C12 witness: a regular file has been moved onto an existing file with
\* other content
C12_Witness ==
  /\ Returned("move_file")
  /\ result.ok
  /\ Exists(pre, MoveTo)
  /\ pre[MoveTo].kind = "file"
  /\ pre[MoveFrom.val].kind = "file"
  /\ pre[MoveTo] # pre[MoveFrom.val]
  /\ fs[MoveTo] = pre[MoveFrom.val]


\* C13: whenever move_file returns an error the filesystem is exactly what it
\* was before the call (the source still holds its content, nothing has been
\* created or replaced at the destination); and it does return an error when
\* the source is missing or outside every root, when the destination has no
\* file name, when the parent of the destination is missing or outside every
\* root, and when the rename fails.
C13_MoveFileAllOrNothing ==
  Returned("move_file") =>
    /\ ~result.ok => fs = pre
    /\ ~MoveFrom.ok \/ ~Contained(MoveFrom.val) => ~result.ok
    /\ MoveFrom.ok /\ ~Contained(MoveFrom.val) => result.err = "OutsideSandbox"
    /\ ~FileName(call.destination).ok => ~result.ok
    /\ ~MoveParent.ok \/ ~Contained(MoveParent.val) => ~result.ok
    /\ loc.fault = "rename" => ~result.ok

\* C13 witness: the rename of a regular file onto an existing directory has
\* failed
C13_Witness ==
  /\ Returned("move_file")
  /\ ~result.ok
  /\ MoveResolvable
  /\ loc.fault = "none"
  /\ pre[MoveFrom.val].kind = "file"
  /\ IsDirAt(pre, MoveTo)
  /\ ReadToString(fs, call.source) = ReadToString(pre, call.source)


\* C14: a read_file during which nothing else touches the file returns the
\* whole content of a regular file inside a root whose length is at most
\* MAX_FILE_SIZE (exactly MAX_FILE_SIZE included), fails with a size-limit
\* error when the length is MAX_FILE_SIZE + 1 or more, and fails without
\* content when the resolved path is not a regular file.
C14_ReadFileSizeCeiling ==
  Returned("read_file") /\ fs = pre =>
    LET canon == Canonicalize(pre, call.path) IN
    canon.ok /\ Contained(canon.val) =>
      LET node == pre[canon.val] IN
      /\ node.kind = "file" /\ ByteLen(node.data) <= MAX_FILE_SIZE =>
           result = Ok([content |-> node.data])
      /\ node.kind = "file" /\ ByteLen(node.data) >= MAX_FILE_SIZE + 1 =>
           ~result.ok /\ result.err = "SizeLimitExceeded"
      /\ node.kind # "file" => ~result.ok

\* C14 witness: a file of exactly MAX_FILE_SIZE bytes has been read
C14_Witness ==
  /\ Returned("read_file")
  /\ fs = pre
  /\ result.ok
  /\ ByteLen(result.val.content) = MAX_FILE_SIZE

\* C15: whatever another process appends between the size check and the read,
\* read_file reads at most MAX_FILE_SIZE + 1 bytes, never returns more than
\* MAX_FILE_SIZE bytes, fails with a size-limit error when the file has more
\* than MAX_FILE_SIZE bytes at the read, and otherwise returns the whole file
\* as it is at the read, never a truncation.
C15_ReadFileGrowthGuard ==
  Returned("read_file") =>
    /\ result.ok => ByteLen(result.val.content) <= MAX_FILE_SIZE
    /\ result.ok => result.val.content = fs[loc.canon_path].data
    /\ loc # NoLoc =>
         /\ loc.read <= MAX_FILE_SIZE + 1
         /\ ByteLen(fs[loc.canon_path].data) > MAX_FILE_SIZE =>
              ~result.ok /\ result.err = "SizeLimitExceeded"

\* C15 witness: a file that passed the size check grew past the ceiling by
\* two bytes before the read, which then took MAX_FILE_SIZE + 1 bytes and
\* was refused
C15_Witness ==
  /\ Returned("read_file")
  /\ loc # NoLoc
  /\ loc.checked <= MAX_FILE_SIZE
  /\ ByteLen(fs[loc.canon_path].data) = MAX_FILE_SIZE + 2
  /\ loc.read = MAX_FILE_SIZE + 1
  /\ ~result.ok


\* the indices of the path list whose read_file succeeds
Readable == {i \in 1..Len(call.paths) : ReadFile(fs, roots, call.paths[i]).ok}

\* the k-th smallest readable index
NthReadable(k) ==
  CHOOSE i \in Readable : Cardinality({j \in Readable : j <= i}) = k

\* C16: read_multiple_files always returns success; the list it returns has
\* one element per path whose read_file succeeds, at most as many as there are
\* paths, and its k-th element is the content of the k-th such path in the
\* order of the input list.
C16_ReadMultipleDropsFailures ==
  Returned("read_multiple_files") =>
    /\ result.ok
    /\ Len(result.val.contents) = Cardinality(Readable)
    /\ Len(result.val.contents) <= Len(call.paths)
    /\ \A k \in 1..Len(result.val.contents) :
         result.val.contents[k] = ReadFile(fs, roots, call.paths[NthReadable(k)]).val

\* C16 witness: of three paths the middle one failed and the two others gave
\* different contents
C16_Witness ==
  /\ Returned("read_multiple_files")
  /\ Len(call.paths) = 3
  /\ Readable = {1, 3}
  /\ Len(result.val.contents) = 2
  /\ result.val.contents[1] # result.val.contents[2]


\* C17: create_directory on a path that exists, as a file or as a directory,
\* changes nothing and returns the success value "already exists"; a call that
\* returns the empty string was made on a path that did not exist, has made it
\* a directory and has added nothing but directories; so a second call on a
\* path an earlier call created returns "already exists" and changes nothing.
C17_CreateDirectoryReportsExisting ==
  Returned("create_directory") =>
    /\ PathExists(pre, call.path) =>
         result = Ok([message |-> "already exists"]) /\ fs = pre
    /\ result = Ok([message |-> ""]) =>
         /\ ~PathExists(pre, call.path)
         /\ PathIsDir(fs, call.path)
         /\ Kept
         /\ \A q \in DOMAIN fs \ DOMAIN pre : fs[q] = Dir
         /\ call.path \in made

\* C17 witness: the second call on a nested path that the first call created
\* has returned "already exists"
C17_Witness ==
  /\ Returned("create_directory")
  /\ call.path \in made
  /\ Len(call.path) = 3
  /\ ~PathExists(FS0, call.path)
  /\ result = Ok([message |-> "already exists"])
  /\ fs = pre


\* the directory a listing or a search was asked for
Asked == Canonicalize(fs, call.path).val

\* C18: a successful list_directory returns, for every entry directly inside
\* the resolved directory that is not a symlink, its name, followed by "/"
\* when the entry is a directory, and nothing else (no symlink, no
\* grandchild), each once, in strictly increasing byte order; and it succeeds
\* on every directory inside a root.
C18_ListDirectoryImmediateChildren ==
  Returned("list_directory") =>
    /\ result.ok =>
         LET entries == result.val.entries
             inside == {x \in DOMAIN fs :
                          /\ Len(x) = Len(Asked) + 1
                          /\ SubSeq(x, 1, Len(Asked)) = Asked
                          /\ fs[x].kind # "link"}
             shown(x) == IF fs[x].kind = "dir"
                           THEN Append(Spell(x[Len(x)]), "/")
                           ELSE Spell(x[Len(x)])
         IN /\ {entries[i] : i \in 1..Len(entries)} = {shown(x) : x \in inside}
            /\ Len(entries) = Cardinality(inside)
            /\ \A i \in 1..(Len(entries) - 1) : BytesLess(entries[i], entries[i + 1])
    /\ Canonicalize(fs, call.path).ok /\ Contained(Asked) /\ IsDirAt(fs, Asked)
         => result.ok

\* C18 witness: the listing of a directory that holds symlinks, a directory
\* with children of its own and a file whose name sorts before "d/" but after
\* "d" has been returned
C18_Witness ==
  /\ Returned("list_directory")
  /\ result.ok
  /\ \E x \in DOMAIN fs : Len(x) = Len(Asked) + 2 /\ StartsWith(x, Asked)
  /\ \E x \in DOMAIN fs :
       Len(x) = Len(Asked) + 1 /\ StartsWith(x, Asked) /\ fs[x].kind = "link"
  /\ \E i \in 1..(Len(result.val.entries) - 1) :
       /\ result.val.entries[i] = <<"d", ".", "x">>
       /\ result.val.entries[i + 1] = <<"d", "/">>


\* the regular files the walk of the asked path visits
Visited == {x \in Walked(fs, Asked) : fs[x].kind = "file"}

\* the lowercased bare name of x matches the lowercased include glob and none
\* of the lowercased exclude globs
Selected(x) ==
  LET file_name == Lower(x[Len(x)]) IN
  /\ GlobMatch(Lower(call.pattern), file_name)
  /\ \A i \in 1..Len(call.exclude_patterns) :
       ~GlobMatch(Lower(call.exclude_patterns[i]), file_name)

\* C19: a successful search_files returns the path of a visited regular file
\* if and only if its lowercased bare name matches the lowercased include glob
\* and none of the lowercased exclude globs, each path once; with no exclude
\* glob these are exactly the files matching the include glob.
C19_SearchMatchRule ==
  Returned("search_files") /\ result.ok =>
    LET files == result.val.files IN
    /\ {files[i] : i \in 1..Len(files)} =
         {PathString(x) : x \in {v \in Visited : Selected(v)}}
    /\ Len(files) = Cardinality({v \in Visited : Selected(v)})
    /\ call.exclude_patterns = <<>> =>
         {files[i] : i \in 1..Len(files)} =
           {PathString(x) : x \in {v \in Visited :
              GlobMatch(Lower(call.pattern), Lower(v[Len(v)]))}}

\* C19 witness: an upper-case include glob has selected a file with the
\* lower-case name and a file with the upper-case name, at different depths
C19_Witness ==
  /\ Returned("search_files")
  /\ result.ok
  /\ call.pattern = "F"
  /\ \E i, j \in 1..Len(result.val.files) :
       /\ result.val.files[i] = PathString(<<"r", "f">>)
       /\ result.val.files[j] = PathString(<<"r", "d", "F">>)


\* C20: a successful search_files returns every regular file of the subtree
\* of the asked path whose name matches the include glob and no exclude glob,
\* the files whose name starts with "." and the files below a directory
\* whose name starts with "." included.
C20_SearchVisitsHiddenEntries ==
  Returned("search_files") /\ result.ok =>
    \A x \in Under(fs, Asked) :
      fs[x].kind = "file" /\ Selected(x) =>
        \E i \in 1..Len(result.val.files) : result.val.files[i] = PathString(x)


\* C21: every path a successful search_files returns is the absolute path of
\* a regular file physically located at or below the canonical search
\* directory, hence inside a root; no symlink is returned and nothing that
\* is reachable only through a symlink is returned.
C21_SearchDoesNotFollowLinks ==
  Returned("search_files") /\ result.ok =>
    \A i \in 1..Len(result.val.files) :
      \E x \in DOMAIN fs :
        /\ result.val.files[i] = PathString(x)
        /\ fs[x].kind = "file"
        /\ StartsWith(x, Asked)
        /\ Contained(x)

\* C21 witness: a search from a directory that holds a symlink to a file and
\* a symlink to an outside directory with a matching file has returned files
C21_Witness ==
  /\ Returned("search_files")
  /\ result.ok
  /\ call.pattern = "*"
  /\ result.val.files # <<>>
  /\ \E x \in Children(fs, Asked) :
       fs[x].kind = "link" /\ ReadToString(fs, x).ok
  /\ \E x \in Children(fs, Asked) :
       /\ fs[x].kind = "link"
       /\ PathIsDir(fs, x)
       /\ ~Contained(Canonicalize(fs, x).val)
       /\ Children(fs, Canonicalize(fs, x).val) # {}


\* C22: list_directory and search_files are deterministic: for the filesystem
\* and the arguments of the call, the list returned is the same sorted list
\* whatever the order in which the directory enumeration yielded the entries,
\* and it depends on nothing but the filesystem, the roots and the arguments.
C22_ListingAndSearchDeterministic ==
  /\ Returned("list_directory") =>
       \A order \in EnumOrders :
         result = Named(ListDirectory(fs, roots, call.path, order), "entries")
  /\ Returned("search_files") =>
       \A order \in EnumOrders :
         result = Named(SearchFiles(fs, roots, call.path, call.pattern,
                                    call.exclude_patterns, order), "files")

\* C22 witness: a listing of several entries has been returned, which the
\* enumeration can yield in more than one order
C22_Witness ==
  /\ Returned("list_directory")
  /\ result.ok
  /\ Len(result.val.entries) >= 3
  /\ \E o1, o2 \in EnumOrders :
       Enumerate({Entry(fs, x) : x \in Children(fs, Asked)}, o1)
         # Enumerate({Entry(fs, x) : x \in Children(fs, Asked)}, o2)


\* what fails a root argument: it does not canonicalize, or not to a directory
BadRoot(root) ==
  \/ ~Canonicalize(fs, root).ok
  \/ ~IsDirAt(fs, Canonicalize(fs, root).val)

\* C23: Sandbox::new returns an error, and no Sandbox exists, exactly when
\* some supplied root does not exist, cannot be canonicalized or canonicalizes
\* to something that is not a directory; when it succeeds the stored list has
\* the length and the order of the input and each element is the canonical
\* path of an existing directory.
C23_SandboxNewValidatesRoots ==
  call.op = "main" /\ pc # "boot" =>
    LET args == call.roots IN
    /\ pc = "exit" <=> \E i \in 1..Len(args) : BadRoot(args[i])
    /\ pc = "exit" => ~result.ok /\ roots = <<>>
    /\ pc # "exit" =>
         /\ result.ok
         /\ result.val.roots = roots
         /\ Len(roots) = Len(args)
         /\ \A i \in 1..Len(args) :
              /\ roots[i] = Canonicalize(fs, args[i]).val
              /\ IsDirAt(fs, roots[i])

\* C23 witness: a list of two roots, each given through a symlink or a
\* dot-dot path, was accepted; the stored roots are the two canonical
\* directories, which differ from the arguments
C23_Witness ==
  /\ call.op = "main"
  /\ pc = "done"
  /\ Len(roots) = 2
  /\ roots[1] # roots[2]
  /\ \A i \in 1..2 : roots[i] # call.roots[i]


C25_ListAllowedDirectoriesReturnsRoots ==
  Returned("list_allowed_directories") =>
    result.ok /\ result.val.directories = GetRoots(roots)


\* the lengths of the prefixes of the path of the call (the path itself
\* included) that canonicalized when the call started
Resolvable ==
  {n \in 0..Len(call.path) : Canonicalize(pre, SubSeq(call.path, 1, n)).ok}

\* create_directory went past its check
Attempted ==
  ~(pc = "done" /\ result.ok /\ result.val.message = "already exists")

\* C26: check_new_folders decides on the nearest resolvable ancestor only:
\* for a path that does not exist, create_directory goes on to create exactly
\* when the longest prefix of the path that canonicalizes has a canonical
\* form equal to or under a root; no shorter prefix is consulted, and with no
\* resolvable prefix the answer is false.
C26_NearestResolvableAncestorDecides ==
  call.op = "create_directory" /\ ~PathExists(pre, call.path) =>
    (Attempted <=>
       /\ Resolvable # {}
       /\ LET nearest == CHOOSE n \in Resolvable : \A m \in Resolvable : m <= n
          IN Contained(Canonicalize(pre, SubSeq(call.path, 1, nearest)).val))

\* C26 witness: create_directory of a missing path whose parent is a symlink
\* inside the root that leads outside: the nearest resolvable ancestor is
\* outside although a less specific ancestor is the root itself
C26_Witness ==
  /\ Returned("create_directory")
  /\ ~PathExists(pre, call.path)
  /\ ~Attempted
  /\ \E n \in Resolvable :
       /\ Contained(Canonicalize(pre, SubSeq(call.path, 1, n)).val)
       /\ \E m \in Resolvable :
            m > n /\ ~Contained(Canonicalize(pre, SubSeq(call.path, 1, m)).val)


\* the temp file and the target of a write_file or edit_file that got as far
\* as naming them
NamedTemp == DOMAIN loc # DOMAIN NoLoc

TempOf == IF call.op = "write_file" THEN loc.temp_name ELSE loc.tmp

TargetOf == IF call.op = "write_file" THEN loc.canon_filepath ELSE loc.canon_path

C28_WriteEditMoveSession ==
  /\ Returned("write_file") /\ loc.fault = "none" =>
       result.ok /\ ReadFile(fs, roots, FileA) = Ok(Hello)
  /\ Returned("edit_file") /\ loc.fault = "none"
       /\ ReadFile(pre, roots, FileA) = Ok(Hello) =>
         /\ result.ok
         /\ result.val.applied
         /\ \E i, j \in 1..Len(Lines(result.val.diff)) :
              /\ Lines(result.val.diff)[i] = <<"-">> \o Hello \o <<"\n">>
              /\ Lines(result.val.diff)[j] = <<"+">> \o World \o <<"\n">>
         /\ ReadFile(fs, roots, FileA) = Ok(World)
  /\ Returned("move_file") /\ loc.fault = "none"
       /\ ReadFile(pre, roots, FileA) = Ok(World) =>
         /\ result.ok
         /\ ~ResolvePath(fs, roots, FileA).ok
         /\ ~ReadFile(fs, roots, FileA).ok
         /\ ReadFile(fs, roots, FileB) = Ok(World)
  /\ Returned("read_file") =>
       /\ call.path \in {FileA, FileB} =>
            result = Named(ReadFile(pre, roots, call.path), "content")
       /\ call.path \in OutsidePaths => ~result.ok
  /\ \A path \in OutsidePaths : ~ReadFile(fs, roots, path).ok

\* C28 witness: the end of the session: the three mutating calls succeeded
\* and the read of R/b.txt has returned "world" while R/a.txt is gone
C28_Witness ==
  /\ Step = ScenarioOps
  /\ Returned("read_file")
  /\ call.path = FileB
  /\ result = Ok([content |-> World])
  /\ ~Exists(fs, FileA)
  /\ ~ResolvePath(fs, roots, FileA).ok


\* C29: even when another process changes the filesystem between the
\* containment check of a call and its mutating step, write_file, edit_file,
\* move_file and create_directory never create, overwrite or move anything
\* outside the roots: every location outside the roots holds what it held at
\* startup. The calls act on the path they checked without checking again.
C29_RacesNeverEscapeRoots ==
  \A x \in DOMAIN fs \cup DOMAIN FS0 :
    ~Contained(x) => x \in DOMAIN fs /\ x \in DOMAIN FS0 /\ fs[x] = FS0[x]


\* the sandbox accepted the path p as the filesystem was when the call started
Validated(p) ==
  Canonicalize(pre, p).ok /\ Contained(Canonicalize(pre, p).val)

\* the locations whose entry differs from before the call
Touched ==
  {x \in DOMAIN fs \cup DOMAIN pre :
     ~(x \in DOMAIN fs /\ x \in DOMAIN pre /\ fs[x] = pre[x])}

\* C30: check before use, on the checked path: an operation answers from the
\* filesystem or changes it only after the sandbox has validated the path it
\* was given (for write_file and the destination of move_file, the parent;
\* for create_directory, the nearest resolvable ancestor), and what it
\* changes lies at the validated canonical path, never where the raw string
\* leads. create_directory tests the raw path for existence before any
\* validation and creates along the raw path.
C30_ActsOnCheckedPath ==
  pc = "done" /\ result.ok =>
    /\ call.op \in {"read_file", "edit_file", "get_file_info",
                     "list_directory", "search_files"} =>
         Validated(call.path)
    /\ call.op = "write_file" =>
         Validated(Parent(call.path).val) /\ \A x \in Touched : Contained(x)
    /\ call.op = "move_file" =>
         /\ Validated(call.source)
         /\ Validated(Parent(call.destination).val)
         /\ \A x \in Touched : Contained(x)
    /\ call.op = "edit_file" => \A x \in Touched : Contained(x)
    /\ call.op = "create_directory" =>
         /\ \E n \in Resolvable :
              /\ \A m \in Resolvable : m <= n
              /\ Validated(SubSeq(call.path, 1, n))
         /\ \A x \in Touched : Contained(x)


\* C31: a non-dry-run edit_file that fails after it has read the file, at the
\* creation of the temp file, at the write to it or at the final rename,
\* returns an error and leaves the target with exactly the content it had
\* before the call (and every other entry as it was).
C31_EditFileAllOrNothing ==
  Returned("edit_file") /\ ~call.dry_run /\ NamedTemp =>
    /\ loc.fault # "none" => ~result.ok
    /\ ~result.ok =>
         /\ ReadToString(fs, call.path) = ReadToString(pre, call.path)
         /\ fs[loc.canon_path] = pre[loc.canon_path]
         /\ fs = pre

\* C31 witness: the final rename failed after the whole of a new content that
\* differs from the old one was in the temp file
C31_Witness ==
  /\ Returned("edit_file")
  /\ ~call.dry_run
  /\ NamedTemp
  /\ loc.fault = "persist"
  /\ ~result.ok
  /\ loc.new_content # ReadToString(pre, call.path).val
  /\ ReadToString(pre, call.path).val # <<>>


\* the edits computed on the text in the call
Computed == pc = "done" /\ call.op = "edit_file" /\ "original" \in DOMAIN call

\* C33: edits cascade: edit i+1 is applied to the content produced by edits
\* 1..i, not to the original: an old fragment is matched against the content
\* so far, so text introduced by an earlier edit is matched and replaced, and
\* a fragment of the original that an earlier edit removed is skipped.
C33_EditsCascade ==
  Computed =>
    /\ result.val.new_content =
         Folded(call.original, call.edits, Len(call.edits))
    /\ \A i \in 1..Len(call.edits) :
         LET sofar == Folded(call.original, call.edits, i - 1)
             next == Folded(call.original, call.edits, i)
             e == call.edits[i]
         IN IF Contains(sofar, e.old)
              THEN next = Substituted(sofar, e.old, e.new, 1)
              ELSE next = sofar

\* C33 witness: one edit replaced text that only an earlier edit had
\* introduced, and another was skipped because an earlier edit had removed
\* its fragment, which the original contained
C33_Witness ==
  /\ Computed
  /\ \E i \in 1..Len(call.edits) :
       /\ ~Contains(call.original, call.edits[i].old)
       /\ Contains(Folded(call.original, call.edits, i - 1), call.edits[i].old)
       /\ Folded(call.original, call.edits, i)
            # Folded(call.original, call.edits, i - 1)
  /\ \E j \in 1..Len(call.edits) :
       /\ Contains(call.original, call.edits[j].old)
       /\ ~Contains(Folded(call.original, call.edits, j - 1), call.edits[j].old)


\* the lines of a diff whose prefix is one of signs, the prefix removed, put
\* together again
RECURSIVE Unprefixed(_, _)
Unprefixed(lines, signs) ==
  IF lines = <<>> THEN <<>>
  ELSE (IF Head(lines)[1] \in signs THEN Tail(Head(lines)) ELSE <<>>)
         \o Unprefixed(Tail(lines), signs)

\* a text with a line feed added when its last line has none
Terminated(text) ==
  IF text = <<>> \/ text[Len(text)] = "\n" THEN text ELSE text \o <<"\n">>

\* C34 (as stated): every line of the diff has one prefix among " ", "-" and
\* "+"; the " " and "-" lines without their prefix give the original content
\* and the " " and "+" lines give the edited content; a diff of an edit that
\* changes nothing has " " lines only. Refuted for a content whose last line
\* has no line feed: the diff shows that line with one.
C34_DiffReproducesContents ==
  Computed =>
    LET lines == Lines(result.val.diff) IN
    /\ \A i \in 1..Len(lines) : lines[i][1] \in {" ", "-", "+"}
    /\ Unprefixed(lines, {" ", "-"}) = call.original
    /\ Unprefixed(lines, {" ", "+"}) = result.val.new_content
    /\ result.val.new_content = call.original =>
         \A i \in 1..Len(lines) : lines[i][1] = " "

\* C34 (amended): as stated, except that the lines give the original and the
\* edited content each with a line feed added to a last line that has none.
C34_DiffReproducesTerminatedContents ==
  Computed =>
    LET lines == Lines(result.val.diff) IN
    /\ \A i \in 1..Len(lines) : lines[i][1] \in {" ", "-", "+"}
    /\ Unprefixed(lines, {" ", "-"}) = Terminated(call.original)
    /\ Unprefixed(lines, {" ", "+"}) = Terminated(result.val.new_content)
    /\ result.val.new_content = call.original =>
         \A i \in 1..Len(lines) : lines[i][1] = " "

\* C34 witness: a diff with an unchanged, a removed and an added line, of an
\* original whose last line has no line feed
C34_Witness ==
  /\ Computed
  /\ \A sign \in {" ", "-", "+"} :
       \E i \in 1..Len(Lines(result.val.diff)) :
         Lines(result.val.diff)[i][1] = sign
  /\ Terminated(call.original) # call.original


\* the calls that got as far as computing a complete new content
Began == {t \in Tasks : pc[t] \in {"create", "write", "rename"} \/
                         (pc[t] = "done" /\ loc[t] # NoLoc)}

\* the contents the shared file may hold: the one at the start and the
\* complete new content of a call
Whole == {FS0[SharedFile].data} \cup {loc[t].new_content : t \in Began}

\* C32: concurrent edits do not tear: with two write_file or non-dry-run
\* edit_file calls running at once on one file, in every interleaving the
\* file holds, at every moment and at the end, the content at the start or
\* exactly the complete new content one of the calls computed from the
\* content it read (itself such a content); when both have returned and one
\* succeeded it holds the new content of a call that succeeded.
C32_ConcurrentEditsDoNotTear ==
  LET now == ReadToString(fs, SharedFile) IN
  /\ now.ok
  /\ now.val \in Whole
  /\ \A t \in Began :
       call[t].op = "edit_file" =>
         /\ loc[t].original \in Whole
         /\ loc[t].new_content = ApplyEdits(loc[t].original, call[t].edits)
  /\ (\A t \in Tasks : pc[t] = "done") =>
       IF \E t \in Tasks : result[t].ok
         THEN \E t \in Tasks : result[t].ok /\ now.val = loc[t].new_content
         ELSE now.val = FS0[SharedFile].data

\* C32 witness: two edits that both read the starting content have both
\* succeeded; the file holds the output of one and the change of the other
\* is lost
C32_Witness ==
  /\ \A t \in Tasks :
       /\ pc[t] = "done"
       /\ call[t].op = "edit_file"
       /\ result[t].ok
       /\ loc[t].original = FS0[SharedFile].data
  /\ ReadToString(fs, SharedFile).val = loc[1].new_content
  /\ loc[1].new_content # loc[2].new_content


\* the workers that hold line l
Holding(l) == {i \in WorkerIds : pc[i] \in {"post", "after"} /\ loc[i].line = l}

\* the messages sent so far for line l
Sent(l) == made[l].results + made[l].errors

AllTerminated ==
  /\ pc[Spawner] = "returned"
  /\ \A i \in 1..call.concurrency : pc[i] \in {"failed", "exited"}

Applied == pc = "applied"

\* the text after the first n patterns, each applied to what the one before
\* it left
RECURSIVE Outputs(_, _, _)
Outputs(words, text, n) ==
  IF n = 0 THEN text
  ELSE LET before == Outputs(words, text, n - 1)
           w == words[n]
       IN IF IsMatch(w.compiled, before)
            THEN ReplaceAll(w.compiled, before, w.replace) ELSE before

\* C38: apply_patterns applies the patterns in configuration order, each
\* replacing all its matches in the output of the one before it: the result
\* is the output of the last; a pattern that is one letter, replaced by a
\* text without that letter, leaves none of it; a text no pattern matches
\* is returned unchanged.
C38_PatternsApplyInOrder ==
  Applied =>
    LET words == loc.words
        n == Len(words)
    IN /\ result.val.text = Outputs(words, call.text, n)
       /\ \A k \in 1..n :
            LET out == Outputs(words, call.text, k) IN
            (/\ Len(words[k].search) = 1
             /\ words[k].search[1] \in {"a", "b"}
             /\ \A j \in 1..Len(words[k].replace) :
                  words[k].replace[j] # words[k].search[1])
            => \A j \in 1..Len(out) : out[j] # words[k].search[1]
       /\ (\A k \in 1..n : ~IsMatch(words[k].compiled, call.text))
            => result.val.text = call.text

\* C38 witness: the second pattern does not match the input, and matches
\* what the first pattern made of it
C38_Witness ==
  /\ Applied
  /\ Len(loc.words) >= 2
  /\ ~IsMatch(loc.words[2].compiled, call.text)
  /\ IsMatch(loc.words[2].compiled, Outputs(loc.words, call.text, 1))
  /\ result.val.text # Outputs(loc.words, call.text, 1)

\* C39: the pre-filter is a pure optimization: apply_patterns returns what
\* it returns with pattern_set = None; the early exit is taken only when no
\* pattern matches the input, and then returns the input.
C39_PreFilterIsPureOptimization ==
  Applied =>
    /\ result.val.text =
         ApplyPatterns([loc EXCEPT !.pattern_set = NoPatternSet], call.text)
    /\ EarlyExit(loc, call.text) =>
         /\ \A k \in 1..Len(loc.words) :
              ~IsMatch(loc.words[k].compiled, call.text)
         /\ result.val.text = call.text

\* C39 witness: a pattern set of two patterns, none matching a text that is
\* not empty: the early exit was taken
C39_Witness ==
  /\ Applied
  /\ loc.pattern_set.some
  /\ Len(loc.pattern_set.patterns) = 2
  /\ call.text # <<>>
  /\ EarlyExit(loc, call.text)

\* the items whose search pattern does not compile
Invalid(items) ==
  {k \in 1..Len(items) :
     items[k].is_dict /\ items[k].has_search /\ ~Compiles(items[k].search)}

\* C40: invalid patterns are rejected: when an entry of the 'words' list has
\* a search pattern that does not compile, from_py_dict returns an error
\* that lists every invalid pattern with its index, and no configuration; a
\* configuration has one word per list item, in the order of the list.
C40_InvalidPatternsRejected ==
  (pc # "new" /\ call.words.is_list) =>
    LET items == call.words.items IN
    /\ Invalid(items) # {} =>
         /\ ~loc.ok
         /\ {loc.listed[j] : j \in 1..Len(loc.listed)} =
              {[idx |-> k - 1, search |-> items[k].search] : k \in Invalid(items)}
    /\ loc.ok =>
         /\ Len(loc.words) = Len(items)
         /\ \A k \in 1..Len(items) :
              /\ loc.words[k].search = items[k].search
              /\ loc.words[k].replace = items[k].replace


=============================================================================
